---- MODULE Spec2Model ----
(***************************************************************************)
(* Chunked, backpressured file transfer and candidate queuing of the       *)
(* peer-to-peer client: FileChunker / FileDigester (services/files.ts),    *)
(* and Peer / FileTransfer (the webrtc service).                           *)
(*                                                                         *)
(* A file is a sequence of bytes whose i-th byte is tagged i, so a chunk   *)
(* file.slice(off, off + len) is the record [off, len] and stands for the  *)
(* bytes off+1 .. off+len.  Loss, duplication and reordering of bytes are  *)
(* all visible on the tags.                                                *)
(***************************************************************************)
EXTENDS Integers, Sequences, FiniteSets, TLC

\* ------------------------------------------------------------------ bounds
MaxFileSize == 4
MaxChunkSize == 3
MaxPartitionCap == 3
MaxChunkLen == 3
MaxXferFileSize == 3
MaxXferChunk == 2
MaxXferCap == 2
MaxFiles == 2
ScenarioFileSize == 2500000
MaxNegotiations == 2
MaxArrivals == 3
MaxEvents == 3
MaxRemoteSessions == 2
MaxIdLen == 2
MaxIceChanges == 5
MaxTeardownCalls == 3
MaxSockets == 3
MaxSigEvents == 4
MaxOrderEvents == 7

\* ------------------------------------------------------- program constants
DEFAULT_CHUNK_SIZE_BYTES == 64000
DEFAULT_MAX_PARTITION_SIZE_BYTES == 1000000
maxIceRestartAttempts == 1

VARIABLES
    chunker,      \* the FileChunker under test (codec specifications)
    digester,     \* the FileDigester under test (codec specifications)
    emitted,      \* history: the chunks handed to onChunk, in order
    boundaries,   \* history: the offsets handed to onPartitionEnd, in order
    call,         \* history: the nextPartition() call in flight, or the last one
    overlapThrown,\* history: a nextPartition() call found inProgress and threw
    lastOp,       \* history: the last operation applied to the digester
    ft,           \* the FileTransfer engine of each end of the data channel
    chan,         \* chan[e]: the frames in flight to end e, oldest first
    opts,         \* chunkSize and maxPartitionSize of the chunkers FileTransfer makes
    plan,         \* the files the users of the two ends may still pass to sendFiles()
    peer,         \* one Peer (ConnectionSession), its transport and its async calls
    ctl,          \* a WebRTCController: its registry maps and the Peers it made
    mgr,          \* a PeerManager: its session map, candidate buffer and Peers
    pair,         \* two clients applying the initiator rule to each other
    sig           \* a SignalingConnection, its sockets, its timers and its callbacks

codecVars ==
    <<chunker, digester, emitted, boundaries, call, overlapThrown, lastOp>>

xferVars == <<ft, chan, opts, plan>>

registryVars == <<ctl, mgr, pair>>

vars == <<chunker, digester, emitted, boundaries, call, overlapThrown, lastOp,
          ft, chan, opts, plan, peer, ctl, mgr, pair, sig>>

Min(a, b) == IF a < b THEN a ELSE b

Max(a, b) == IF a > b THEN a ELSE b

\* ------------------------------------------------------------ FileChunker

FileChunker(size, cs, mps) ==
    [size |-> size, chunkSize |-> cs, maxPartitionSize |-> mps,
     offset |-> 0, partitionSize |-> 0, inProgress |-> FALSE]

\* get progress(): offset / size as the fraction <<numerator, denominator>>.
chunkerProgress(c) == IF c.size = 0 THEN <<1, 1>> ELSE <<c.offset, c.size>>

isFileEnd(c) == c.offset >= c.size

\* Mutant: the cap compared with > instead of >=.
isPartitionEndStrict(c) == c.partitionSize > c.maxPartitionSize

isPartitionEnd(c) == c.partitionSize >= c.maxPartitionSize

\* Mutant: the slice starts one byte early, re-reading the last byte sent.
readChunkOverlap(c) ==
    LET lo == Max(c.offset - 1, 0)
        hi == Min(lo + c.chunkSize, c.size)
    IN  [off |-> lo, len |-> Max(hi - lo, 0)]

\* file.slice(offset, offset + chunkSize): clamped to the file, never negative.
readChunk(c) ==
    LET hi == Min(c.offset + c.chunkSize, c.size)
    IN  [off |-> c.offset, len |-> Max(hi - c.offset, 0)]

\* The tail of nextPartition(): the boundary notification and the finally block.
partitionFinish(c, chunks) ==
    [chunker |-> [c EXCEPT !.inProgress = FALSE],
     chunks  |-> chunks,
     notes   |-> IF ~isFileEnd(c) /\ isPartitionEnd(c) THEN <<c.offset>> ELSE <<>>,
     threw   |-> FALSE]

\* The while condition of nextPartition(): either the call suspends on the next
\* readChunk() (inProgress stays TRUE) or it leaves the loop.
partitionLoop(c, chunks) ==
    IF ~isFileEnd(c) /\ ~isPartitionEnd(c)
    THEN [chunker |-> c, chunks |-> chunks, notes |-> <<>>, threw |-> FALSE]
    ELSE partitionFinish(c, chunks)

\* Mutant: nextPartition() without the reset of partitionSize.
nextPartitionNoReset(c) ==
    IF c.inProgress
    THEN [chunker |-> c, chunks |-> <<>>, notes |-> <<>>, threw |-> TRUE]
    ELSE IF isFileEnd(c)
    THEN [chunker |-> c, chunks |-> <<>>, notes |-> <<>>, threw |-> FALSE]
    ELSE partitionLoop([c EXCEPT !.inProgress = TRUE], <<>>)

\* nextPartition() from its call to its first suspension (or its return).
nextPartition(c) ==
    IF c.inProgress
    THEN [chunker |-> c, chunks |-> <<>>, notes |-> <<>>, threw |-> TRUE]
    ELSE IF isFileEnd(c)
    THEN [chunker |-> c, chunks |-> <<>>, notes |-> <<>>, threw |-> FALSE]
    ELSE partitionLoop([c EXCEPT !.inProgress = TRUE, !.partitionSize = 0], <<>>)

\* Mutant: repeatPartition() rewinds before it tests inProgress.
repeatPartitionRewindsFirst(c) ==
    nextPartition([c EXCEPT !.offset = Max(0, @ - c.partitionSize)])

\* repeatPartition() from its call to its first suspension (or its return).
repeatPartition(c) ==
    IF c.inProgress
    THEN [chunker |-> c, chunks |-> <<>>, notes |-> <<>>, threw |-> TRUE]
    ELSE nextPartition([c EXCEPT !.offset = Max(0, @ - c.partitionSize)])

\* nextPartition() resumed by a settled readChunk(), to its next suspension.
chunkRead(c) ==
    LET chunk == readChunk(c)
    IN  IF chunk.len = 0
        THEN partitionFinish(c, <<>>)
        ELSE partitionLoop([c EXCEPT !.offset = @ + chunk.len,
                                     !.partitionSize = @ + chunk.len],
                           <<chunk>>)

\* ----------------------------------------------------------- FileDigester

complete(d) ==
    IF d.settled THEN d
    ELSE [d EXCEPT !.settled = TRUE, !.resolves = @ + 1, !.blob = d.buffer]

\* Mutant: abort() without its settled guard.
abortUnguarded(d) == [d EXCEPT !.settled = TRUE, !.rejects = @ + 1]

abort(d) ==
    IF d.settled THEN d
    ELSE [d EXCEPT !.settled = TRUE, !.rejects = @ + 1]

\* Mutant: the constructor without its completion of a zero-size file.
FileDigesterNoZero(size) ==
    [size |-> size, bytesReceived |-> 0, buffer |-> <<>>,
     settled |-> FALSE, resolves |-> 0, rejects |-> 0, blob |-> <<>>]

FileDigester(size) ==
    LET d == [size |-> size, bytesReceived |-> 0, buffer |-> <<>>,
              settled |-> FALSE, resolves |-> 0, rejects |-> 0, blob |-> <<>>]
    IN  IF size = 0 THEN complete(d) ELSE d

\* get progress(): bytesReceived / size as <<numerator, denominator>>.
digesterProgress(d) == IF d.size = 0 THEN <<1, 1>> ELSE <<d.bytesReceived, d.size>>

\* Mutant: unchunk() without the check against the remaining bytes.
unchunkNoBound(d, chunk) ==
    IF d.settled THEN d
    ELSE IF chunk.len = 0 THEN d
    ELSE LET d2 == [d EXCEPT !.buffer = Append(@, chunk),
                             !.bytesReceived = @ + chunk.len]
         IN  IF d2.bytesReceived = d2.size THEN complete(d2) ELSE d2

\* Mutant: a chunk larger than the remaining bytes completes the file.
unchunkOversizeCompletes(d, chunk) ==
    IF d.settled THEN d
    ELSE IF chunk.len = 0 THEN d
    ELSE LET remaining == d.size - d.bytesReceived
         IN  IF remaining <= 0 \/ chunk.len > remaining THEN complete(d)
             ELSE LET d2 == [d EXCEPT !.buffer = Append(@, chunk),
                                      !.bytesReceived = @ + chunk.len]
                  IN  IF d2.bytesReceived = d2.size THEN complete(d2) ELSE d2

unchunk(d, chunk) ==
    IF d.settled THEN d
    ELSE IF chunk.len = 0 THEN d
    ELSE LET remaining == d.size - d.bytesReceived
         IN  IF remaining <= 0 THEN complete(d)
             ELSE IF chunk.len > remaining THEN abort(d)
             ELSE LET d2 == [d EXCEPT !.buffer = Append(@, chunk),
                                      !.bytesReceived = @ + chunk.len]
                  IN  IF d2.bytesReceived = d2.size THEN complete(d2) ELSE d2

RECURSIVE unchunkAll(_, _)
unchunkAll(d, chunks) ==
    IF chunks = <<>> THEN d ELSE unchunkAll(unchunk(d, Head(chunks)), Tail(chunks))

\* The bytes of a chunk, of a Blob assembled from chunks, and of a file.
ChunkBytes(chunk) == [i \in 1..chunk.len |-> chunk.off + i]

RECURSIVE BlobBytes(_)
BlobBytes(parts) ==
    IF parts = <<>> THEN <<>> ELSE ChunkBytes(Head(parts)) \o BlobBytes(Tail(parts))

FileBytes(size) == [i \in 1..size |-> i]

RECURSIVE TotalLen(_)
TotalLen(chunks) == IF chunks = <<>> THEN 0 ELSE Head(chunks).len + TotalLen(Tail(chunks))

ProgressIsOne(p) == p[1] = p[2]

\* ------------------------------------------ the two ends of a data channel

Engines == {"A", "B"}

Other(e) == IF e = "A" THEN "B" ELSE "A"

Null == [null |-> TRUE]

\* A frame on the data channel: a JSON control message or a binary chunk.
Msg(t, a, b) == [type |-> t, a |-> a, b |-> b]

\* The fields of FileTransfer, followed by history fields (sentSizes .. threw)
\* that record what the engine did and are never read by it.
NewFileTransfer ==
    [filesQueue |-> <<>>, busy |-> FALSE, chunker |-> Null, digester |-> Null,
     lastProgress |-> <<0, 1>>,
     sentSizes |-> <<>>,   \* the size of every header emitted
     parts |-> <<>>,       \* the offset of every partition message emitted
     reads |-> 0,          \* nextPartition() calls that started to read
     acks |-> 0,           \* partition-received messages handled
     tcSeen |-> 0,         \* transfer-complete messages handled
     log |-> <<>>,         \* "F" file-received callback, "T" transfer-complete sent
     received |-> <<>>,    \* the files handed to onFileReceived
     threw |-> FALSE,      \* a nextPartition() call rejected (read in progress)
     early |-> FALSE,      \* a chunk went out while a partition was unacknowledged
     headers |-> 0,        \* header messages handled
     deliveredOf |-> <<>>, \* for each file-received callback, the header it answers
     replaced |-> <<>>,    \* the digesters a later header replaced, as abort() left them
     since |-> <<>>]       \* the chunks handed to the current digester

\* FileTransfer.destroy(): the queue and the chunker are dropped and a pending
\* digester is rejected (kept in `replaced`, with the header it answered).
destroyTransfer(f) ==
    LET f1 == [f EXCEPT !.filesQueue = <<>>, !.busy = FALSE, !.chunker = Null,
                        !.digester = Null, !.lastProgress = <<0, 1>>]
    IN  IF f.digester = Null THEN f1
        ELSE [f1 EXCEPT !.replaced =
                 Append(@, [header |-> f.headers,
                            pending |-> ~f.digester.settled,
                            digester |-> abort(f.digester)])]

IdleXfer ==
    /\ ft = [e \in Engines |-> NewFileTransfer]
    /\ chan = [e \in Engines |-> <<>>]
    /\ opts = [chunkSize |-> DEFAULT_CHUNK_SIZE_BYTES,
               maxPartitionSize |-> DEFAULT_MAX_PARTITION_SIZE_BYTES]
    /\ plan = [left |-> 0, sizes |-> {}, ends |-> {}]

\* ------------------------------------------------------------------- Peer

\* The fields of Peer and of its RTCPeerConnection, the transport's operations
\* chain (ops: the promises not yet settled, settled oldest first), the async
\* calls of the Peer suspended on them (tasks), and history (applied, arrivals,
\* sent, negotiations).
NewPeer(isCaller) ==
    [isCaller |-> isCaller,
     pcOpen |-> FALSE,                 \* this.pc !== null
     dcOpen |-> FALSE,                 \* this.dc?.readyState === 'open'
     remoteDescription |-> FALSE,      \* this.pc.remoteDescription
     signalingState |-> "stable",      \* this.pc.signalingState
     pendingCandidates |-> <<>>,
     pendingEndOfCandidates |-> FALSE,
     iceRestartAttempts |-> 0,
     localDescription |-> FALSE,       \* this.pc.localDescription
     iceConnectionState |-> "new",     \* this.pc.iceConnectionState
     restarts |-> <<>>,                \* every ICE restart issued (history)
     iceChanges |-> 0,                 \* iceconnectionstatechange events so far
     ops |-> <<>>,
     tasks |-> <<>>,
     applied |-> <<>>,                 \* every addIceCandidate call, in call order
     arrivals |-> <<>>,                \* every HandleCandidate call, in call order
     sent |-> <<>>,                    \* OFFER / ANSWER handed to signaling.send
     negotiations |-> 0,               \* HandlerOffer / HandleAnswer calls so far
     settlesAfterClose |-> FALSE,      \* platform: close() leaves promises to settle
     lateOk |-> FALSE,                 \* the operation cut short by close() had succeeded
     destroyedAt |-> -1,               \* Len(sent) at the first destroy(), -1 before
     failed |-> <<>>,                  \* the rejections noted by SpecAbsorb (history)
     lastConnectionState |-> "null",
     fileTransfer |-> NewFileTransfer]

\* No Peer has been constructed.
IdlePeer == peer = Null

enqueue(p, op, sdp, t) ==
    [p EXCEPT !.ops = Append(@, [op |-> op, sdp |-> sdp, task |-> t])]

suspend(p, t, label, cands) ==
    [p EXCEPT !.tasks[t] = [@ EXCEPT !.at = label, !.cands = cands]]

startTask(p, kind) ==
    [p EXCEPT !.tasks = Append(@, [kind |-> kind, at |-> "start", cands |-> <<>>])]

addIceCandidate(p, entry, t) ==
    enqueue([p EXCEPT !.applied = Append(@, entry)], "addIceCandidate", "", t)

\* createOffer(): await pc.createOffer() is its first suspension.
createOffer(p) ==
    IF ~p.pcOpen THEN p
    ELSE LET p1 == startTask(p, "createOffer")
             t == Len(p1.tasks)
         IN  suspend(enqueue(p1, "createOffer", "offer", t), t, "createOffer", <<>>)

\* createPeerConnection(): the caller also opens the data channel and offers.
createPeerConnection(p) ==
    IF p.pcOpen THEN p
    ELSE LET p1 == [p EXCEPT !.pcOpen = TRUE, !.remoteDescription = FALSE,
                             !.localDescription = FALSE,
                             !.iceConnectionState = "new",
                             !.signalingState = "stable"]
         IN  IF p1.isCaller THEN createOffer(p1) ELSE p1

\* Mutant: tryIceRestart() without its test of the role.
tryIceRestartAnyRole(p) ==
    IF ~p.pcOpen THEN p
    ELSE IF p.iceRestartAttempts >= maxIceRestartAttempts THEN p
    ELSE IF p.signalingState # "stable" THEN p
    ELSE createOffer([p EXCEPT !.iceRestartAttempts = @ + 1,
                               !.restarts = Append(@, [isCaller |-> p.isCaller,
                                                       signalingState |-> p.signalingState,
                                                       iceState |-> p.iceConnectionState])])

\* tryIceRestart() to its suspension in createOffer({iceRestart: true}).
tryIceRestart(p) ==
    IF ~p.pcOpen \/ ~p.isCaller THEN p
    ELSE IF p.iceRestartAttempts >= maxIceRestartAttempts THEN p
    ELSE IF p.signalingState # "stable" THEN p
    ELSE createOffer([p EXCEPT !.iceRestartAttempts = @ + 1,
                               !.restarts = Append(@, [isCaller |-> p.isCaller,
                                                       signalingState |-> p.signalingState,
                                                       iceState |-> p.iceConnectionState])])

\* pc.oniceconnectionstatechange with the transport's new ICE state.
oniceconnectionstatechange(p, iceState) ==
    LET p1 == [p EXCEPT !.iceConnectionState = iceState, !.iceChanges = @ + 1]
        p2 == IF iceState \in {"connected", "completed"}
              THEN [p1 EXCEPT !.iceRestartAttempts = 0]
              ELSE p1
    IN  IF iceState = "failed" THEN tryIceRestart(p2) ELSE p2

\* The ICE states the transport may change to from a given one.
IceNext(iceState) ==
    CASE iceState = "new" -> {"checking"}
      [] iceState = "checking" -> {"connected", "disconnected", "failed"}
      [] iceState = "connected" -> {"completed", "disconnected", "failed"}
      [] iceState = "completed" -> {"disconnected", "failed"}
      [] iceState = "disconnected" -> {"checking", "connected", "completed", "failed"}
      [] iceState = "failed" -> {"checking", "disconnected"}
      [] OTHER -> {}

\* What follows "await this.flushPendingCandidates()" in the caller of the flush.
afterFlush(p, t) ==
    IF p.tasks[t].kind = "HandlerOffer"
    THEN suspend(enqueue(p, "createAnswer", "answer", t), t, "createAnswer", <<>>)
    ELSE suspend(p, t, "done", <<>>)

\* The loop of flushPendingCandidates() over its local array, then the queued
\* end-of-candidates marker; it suspends on every addIceCandidate.
flushLoop(p, t, cands) ==
    IF cands # <<>>
    THEN suspend(addIceCandidate(p, [n |-> Head(cands), kind |-> "cand", via |-> "flush"], t),
            t, "flush", Tail(cands))
    ELSE IF p.pendingEndOfCandidates
    THEN suspend(addIceCandidate([p EXCEPT !.pendingEndOfCandidates = FALSE],
                            [n |-> 0, kind |-> "eoc", via |-> "flush"], t),
            t, "flushEoc", <<>>)
    ELSE afterFlush(p, t)

flushPendingCandidates(p, t) ==
    IF ~p.pcOpen \/ ~p.remoteDescription
    THEN afterFlush(p, t)
    ELSE flushLoop([p EXCEPT !.pendingCandidates = <<>>], t, p.pendingCandidates)

\* HandlerOffer(offer) to its first suspension, await pc.setRemoteDescription.
HandlerOffer(p) ==
    LET p1 == createPeerConnection(p)
        p2 == startTask(p1, "HandlerOffer")
        t == Len(p2.tasks)
    IN  suspend(enqueue(p2, "setRemoteDescription", "offer", t), t, "setRemoteDescription", <<>>)

\* HandleAnswer(answer) to its first suspension.
HandleAnswer(p) ==
    IF ~p.pcOpen THEN p
    ELSE LET p1 == startTask(p, "HandleAnswer")
             t == Len(p1.tasks)
         IN  suspend(enqueue(p1, "setRemoteDescription", "answer", t), t,
                "setRemoteDescription", <<>>)

\* HandleCandidate(candidate): kind is "null" (end of candidates), "empty" (a
\* candidate with an empty candidate string) or "cand"; n numbers the call.
HandleCandidate(p, kind, n) ==
    IF ~p.pcOpen THEN p
    ELSE IF kind = "null"
    THEN IF ~p.remoteDescription
         THEN [p EXCEPT !.pendingEndOfCandidates = TRUE]
         ELSE addIceCandidate(p, [n |-> n, kind |-> "eoc", via |-> "direct"], 0)
    ELSE IF kind = "empty" THEN p
    ELSE IF ~p.remoteDescription
    THEN [p EXCEPT !.pendingCandidates = Append(@, n)]
    ELSE addIceCandidate(p, [n |-> n, kind |-> "cand", via |-> "direct"], 0)

\* A HandlerOffer or HandleAnswer call is suspended on setRemoteDescription or on
\* an addIceCandidate of its candidate flush.
Negotiating(p) ==
    \E t \in 1..Len(p.tasks) :
        /\ p.tasks[t].kind \in {"HandlerOffer", "HandleAnswer"}
        /\ p.tasks[t].at \in {"setRemoteDescription", "flush", "flushEoc"}

\* A call of HandleCandidate together with its entry in the history of calls.
candidateArrives(p, kind) ==
    LET n == Len(p.arrivals) + 1
        r == HandleCandidate(p, kind, n)
        queued == IF kind = "null"
                  THEN r.pendingEndOfCandidates /\ r.applied = p.applied
                  ELSE r.pendingCandidates # p.pendingCandidates
    IN  [r EXCEPT !.arrivals = Append(@, [kind |-> kind, queued |-> queued,
                                          during |-> Negotiating(p)])]

\* Whether the transport can accept the operation in its signaling state (JSEP).
\* A remote offer against a local offer is accepted by an implicit rollback on
\* some platforms and refused on others: both outcomes are kept.
MayResolve(p, o) ==
    IF ~p.pcOpen THEN p.lateOk ELSE
    CASE o.op = "setRemoteDescription" /\ o.sdp = "offer" -> TRUE
      [] o.op = "setRemoteDescription" /\ o.sdp = "answer" ->
            p.signalingState = "have-local-offer"
      [] o.op = "createAnswer" -> p.signalingState = "have-remote-offer"
      [] o.op = "setLocalDescription" /\ o.sdp = "answer" ->
            p.signalingState = "have-remote-offer"
      [] o.op = "setLocalDescription" /\ o.sdp = "offer" ->
            p.signalingState \in {"stable", "have-local-offer"}
      [] OTHER -> TRUE

\* A promise of a transport that destroy() has closed settles: this.pc is null,
\* so the call awaiting it returns from flushPendingCandidates at once and throws
\* a TypeError into its catch at its next use of this.pc; only after
\* "await this.pc.setLocalDescription(...)" is there no such use before
\* this.signaling.send(...).
settleClosed(p, ok) ==
    LET o == Head(p.ops)
        t == o.task
        p1 == [p EXCEPT !.ops = Tail(@), !.lateOk = FALSE]
    IN  IF t <= 0 THEN p1
        ELSE IF o.op = "setLocalDescription" /\ ok
        THEN suspend([p1 EXCEPT !.sent = Append(@, IF o.sdp = "offer"
                                                   THEN "OFFER" ELSE "ANSWER")],
                t, "done", <<>>)
        ELSE suspend(p1, t, "done", <<>>)

\* Mutant: HandlerOffer sends its ANSWER from a finally block, and its catch
\* empties the candidate buffer.
settleAnswersAnyway(p, ok) ==
    LET o == Head(p.ops)
        t == o.task
        p1 == [p EXCEPT !.ops = Tail(@)]
    IN  IF ~p.pcOpen THEN settleClosed(p, ok) ELSE
        CASE o.op = "setRemoteDescription" ->
               IF ok
               THEN flushPendingCandidates(
                        [p1 EXCEPT !.remoteDescription = TRUE,
                                   !.signalingState = IF o.sdp = "offer"
                                                      THEN "have-remote-offer"
                                                      ELSE "stable"], t)
               ELSE suspend([p1 EXCEPT !.pendingCandidates = <<>>,
                                       !.sent = IF o.sdp = "offer"
                                                THEN Append(@, "ANSWER") ELSE @],
                       t, "done", <<>>)
          [] o.op = "addIceCandidate" ->
               IF t <= 0 THEN p1
               ELSE IF p1.tasks[t].at = "flush" THEN flushLoop(p1, t, p1.tasks[t].cands)
               ELSE afterFlush(p1, t)
          [] o.op = "createAnswer" ->
               IF ok
               THEN suspend(enqueue(p1, "setLocalDescription", "answer", t), t,
                       "setLocalDescription", <<>>)
               ELSE suspend(p1, t, "done", <<>>)
          [] o.op = "createOffer" ->
               IF ok
               THEN suspend(enqueue(p1, "setLocalDescription", "offer", t), t,
                       "setLocalDescription", <<>>)
               ELSE suspend(p1, t, "done", <<>>)
          [] o.op = "setLocalDescription" ->
               IF ok
               THEN suspend([p1 EXCEPT !.localDescription = TRUE,
                                  !.signalingState = IF o.sdp = "offer"
                                                      THEN "have-local-offer"
                                                      ELSE "stable",
                                  !.sent = Append(@, IF o.sdp = "offer"
                                                     THEN "OFFER" ELSE "ANSWER")],
                       t, "done", <<>>)
               ELSE suspend(p1, t, "done", <<>>)

\* The oldest pending operation of the transport settles and the async call
\* awaiting it runs on to its next suspension or to its end.
settle(p, ok) ==
    LET o == Head(p.ops)
        t == o.task
        p1 == [p EXCEPT !.ops = Tail(@)]
    IN  IF ~p.pcOpen THEN settleClosed(p, ok) ELSE
        CASE o.op = "setRemoteDescription" ->
               IF ok
               THEN flushPendingCandidates(
                        [p1 EXCEPT !.remoteDescription = TRUE,
                                   !.signalingState = IF o.sdp = "offer"
                                                      THEN "have-remote-offer"
                                                      ELSE "stable"], t)
               ELSE suspend(p1, t, "done", <<>>)
          [] o.op = "addIceCandidate" ->
               IF t <= 0 THEN p1
               ELSE IF p1.tasks[t].at = "flush" THEN flushLoop(p1, t, p1.tasks[t].cands)
               ELSE afterFlush(p1, t)
          [] o.op = "createAnswer" ->
               IF ok
               THEN suspend(enqueue(p1, "setLocalDescription", "answer", t), t,
                       "setLocalDescription", <<>>)
               ELSE suspend(p1, t, "done", <<>>)
          [] o.op = "createOffer" ->
               IF ok
               THEN suspend(enqueue(p1, "setLocalDescription", "offer", t), t,
                       "setLocalDescription", <<>>)
               ELSE suspend(p1, t, "done", <<>>)
          [] o.op = "setLocalDescription" ->
               IF ok
               THEN suspend([p1 EXCEPT !.localDescription = TRUE,
                                  !.signalingState = IF o.sdp = "offer"
                                                      THEN "have-local-offer"
                                                      ELSE "stable",
                                  !.sent = Append(@, IF o.sdp = "offer"
                                                     THEN "OFFER" ELSE "ANSWER")],
                       t, "done", <<>>)
               ELSE suspend(p1, t, "done", <<>>)

\* Mutant: destroy() leaves the transport and its event handlers in place.
destroyKeepsTransport(p) ==
    LET p1 == [p EXCEPT !.fileTransfer = destroyTransfer(@),
                        !.dcOpen = FALSE,
                        !.remoteDescription = FALSE,
                        !.localDescription = FALSE,
                        !.signalingState = "closed", !.iceConnectionState = "closed",
                        !.iceRestartAttempts = 0,
                        !.pendingCandidates = <<>>, !.pendingEndOfCandidates = FALSE,
                        !.destroyedAt = IF @ >= 0 THEN @ ELSE Len(p.sent)]
    IN  IF p.settlesAfterClose
        THEN [p1 EXCEPT !.lateOk = p.ops # <<>> /\ MayResolve(p, Head(p.ops))]
        ELSE [p1 EXCEPT !.ops = <<>>,
                        !.tasks = [t \in 1..Len(p.tasks) |->
                                      [p.tasks[t] EXCEPT !.at = "done", !.cands = <<>>]]]

\* destroy(): the transport is closed and the buffers are cleared. Where the
\* platform follows the WebRTC operations chain, the pending promises of a closed
\* transport never settle and the async calls suspended on them never resume;
\* elsewhere (settlesAfterClose) the operation in progress still reports its
\* outcome and the operations chained behind it are refused.
destroy(p) ==
    LET p1 == [p EXCEPT !.fileTransfer = destroyTransfer(@),
                        !.pcOpen = FALSE, !.dcOpen = FALSE,
                        !.lastConnectionState = "null",
                        !.remoteDescription = FALSE,
                        !.localDescription = FALSE,
                        !.signalingState = "closed", !.iceConnectionState = "closed",
                        !.iceRestartAttempts = 0,
                        !.pendingCandidates = <<>>, !.pendingEndOfCandidates = FALSE,
                        !.destroyedAt = IF @ >= 0 THEN @ ELSE Len(p.sent)]
    IN  IF p.settlesAfterClose
        THEN [p1 EXCEPT !.lateOk = p.ops # <<>> /\ MayResolve(p, Head(p.ops))]
        ELSE [p1 EXCEPT !.ops = <<>>,
                        !.tasks = [t \in 1..Len(p.tasks) |->
                                      [p.tasks[t] EXCEPT !.at = "done", !.cands = <<>>]]]

\* pc.onconnectionstatechange with the transport in `state`: the state
\* reported to onConnectionStateChange, or "null" if nothing is reported.
onconnectionstatechange(p, state) ==
    IF ~p.pcOpen \/ state = p.lastConnectionState
    THEN [p |-> p, reported |-> "null"]
    ELSE [p |-> [p EXCEPT !.lastConnectionState = state], reported |-> state]

\* -------------------------------------------------------- WebRTCController

\* Relay-assigned ids are strings, here sequences of code units; JavaScript's
\* a < b on strings is the lexicographic order of the code units.
\* Mutant: a string is taken to sort before itself and before its prefixes.
LexLessOrPrefix(a, b) ==
    \/ a = <<>>
    \/ b = <<>>
    \/ Head(a) < Head(b)

RECURSIVE LexLess(_, _)
LexLess(a, b) ==
    IF b = <<>> THEN FALSE
    ELSE IF a = <<>> THEN TRUE
    ELSE IF Head(a) # Head(b) THEN Head(a) < Head(b)
    ELSE LexLess(Tail(a), Tail(b))

MyId == <<1, 0>>
Remotes == {<<1>>, <<2>>}

\* A Peer made by a registry, with whether destroy() was called on it.
Session(peerId, sessionId, p) ==
    [peerId |-> peerId, sessionId |-> sessionId, destroyed |-> FALSE, p |-> p]

\* The fields of WebRTCController (0 stands for an absent map entry), the Peers
\* it constructed (sessions) and history (events, cands; msgs counts
\* the relay messages, user requests and transport callbacks handled).
NewController ==
    [myId |-> <<>>,
     peers |-> {},
     peerConnections |-> [r \in Remotes |-> 0],
     peerConnectionState |-> [r \in Remotes |-> "absent"],
     peerSessionById |-> [r \in Remotes |-> 0],
     sessions |-> <<>>,
     fresh |-> 0,          \* session ids drawn by newSessionId()
     events |-> <<>>,      \* destroy / register of a session, in order
     cands |-> <<>>,       \* every CANDIDATE handled, the session it went to (to)
                           \* and the number of sessions made before it (seen)
     last |-> <<>>,        \* the message or request handled last
     msgs |-> 0,
     connectionStatus |-> "connecting",
     destroyed |-> FALSE]  \* destroy() was called (signaling is destroyed)

\* peer.destroy() as called by the controller, with the onConnectionStateChange
\* ('closed') callback of constructPeer.
ctlDestroy(c, i) ==
    [c EXCEPT !.sessions[i] = [@ EXCEPT !.destroyed = TRUE, !.p = destroy(@)],
              !.events = Append(@, <<"destroy", i>>),
              !.peerConnectionState[c.sessions[i].peerId] = "not connected"]

\* constructPeer and the three registrations that follow it.
ctlRegister(c, peerId, sessionId, isCaller) ==
    [c EXCEPT !.sessions = Append(@, Session(peerId, sessionId, NewPeer(isCaller))),
              !.peerConnections[peerId] = Len(c.sessions) + 1,
              !.peerSessionById[peerId] = sessionId,
              !.peerConnectionState[peerId] = "not connected",
              !.events = Append(@, <<"register", Len(c.sessions) + 1>>)]

connectToPeer(c, peerId) ==
    IF peerId = <<>> \/ peerId = c.myId THEN c
    ELSE IF c.peerConnections[peerId] # 0 THEN c
    ELSE LET sid == 100 + c.fresh + 1
             c1 == ctlRegister([c EXCEPT !.fresh = @ + 1], peerId, sid, TRUE)
             i == Len(c1.sessions)
         IN  [c1 EXCEPT !.sessions[i].p = createPeerConnection(@)]

\* The condition of connectPeer.
shouldConnect(myId, peerId) ==
    myId # <<>> /\ peerId # <<>> /\ peerId # myId /\ LexLess(myId, peerId)

\* Mutant: connectPeer() connects whatever the order of the two ids.
connectPeerUnconditional(c, peerId) == connectToPeer(c, peerId)

connectPeer(c, peerId) ==
    IF shouldConnect(c.myId, peerId) THEN connectToPeer(c, peerId) ELSE c

\* Mutant: a superseding OFFER registers the new session without destroying
\* the one on file.
handleIncomingOfferNoDestroy(c, peerId, sessionId) ==
    LET existing == c.peerConnections[peerId]
    IN  IF existing # 0 /\ c.peerSessionById[peerId] = sessionId
        THEN [c EXCEPT !.sessions[existing].p = HandlerOffer(@)]
        ELSE LET c2 == ctlRegister(c, peerId, sessionId, FALSE)
                 i == Len(c2.sessions)
             IN  [c2 EXCEPT !.sessions[i].p = HandlerOffer(@)]

handleIncomingOffer(c, peerId, sessionId) ==
    LET existing == c.peerConnections[peerId]
    IN  IF existing # 0 /\ c.peerSessionById[peerId] = sessionId
        THEN [c EXCEPT !.sessions[existing].p = HandlerOffer(@)]
        ELSE LET c1 == IF existing # 0 THEN ctlDestroy(c, existing) ELSE c
                 c2 == ctlRegister(c1, peerId, sessionId, FALSE)
                 i == Len(c2.sessions)
             IN  [c2 EXCEPT !.sessions[i].p = HandlerOffer(@)]

handleIncomingAnswer(c, peerId, sessionId) ==
    IF c.peerSessionById[peerId] # sessionId THEN c
    ELSE IF c.peerConnections[peerId] = 0 THEN c
    ELSE [c EXCEPT !.sessions[c.peerConnections[peerId]].p = HandleAnswer(@)]

\* Mutant: a CANDIDATE goes to the session on file whatever its session id.
handleIncomingCandidateNoCheck(c, peerId, sessionId, kind) ==
    LET i == c.peerConnections[peerId]
        c1 == [c EXCEPT !.cands = Append(@, [peerId |-> peerId, sessionId |-> sessionId,
                                             kind |-> kind, to |-> i,
                                             seen |-> Len(c.sessions)])]
    IN  IF i = 0 THEN c1
        ELSE [c1 EXCEPT !.sessions[i].p = candidateArrives(@, kind)]

handleIncomingCandidate(c, peerId, sessionId, kind) ==
    LET i == IF c.peerSessionById[peerId] # sessionId THEN 0
             ELSE c.peerConnections[peerId]
        c1 == [c EXCEPT !.cands = Append(@, [peerId |-> peerId, sessionId |-> sessionId,
                                             kind |-> kind, to |-> i,
                                             seen |-> Len(c.sessions)])]
    IN  IF i = 0 THEN c1
        ELSE [c1 EXCEPT !.sessions[i].p = candidateArrives(@, kind)]

\* case 'LEFT' of handleSignalingMessage.
handleLeft(c, peerId) ==
    LET i == c.peerConnections[peerId]
        c1 == IF i # 0 THEN [ctlDestroy(c, i) EXCEPT !.peerConnections[peerId] = 0] ELSE c
    IN  [c1 EXCEPT !.peerConnectionState[peerId] = "absent",
                   !.peerSessionById[peerId] = 0,
                   !.peers = @ \ {peerId}]

RECURSIVE connectAll(_, _)
connectAll(c, ids) ==
    IF ids = {} THEN c
    ELSE LET id == CHOOSE x \in ids : TRUE
         IN  connectAll(connectPeer(c, id), ids \ {id})

\* case 'HELLO' of handleSignalingMessage.
handleHello(c, myId, peers) ==
    connectAll([c EXCEPT !.myId = myId, !.peers = peers \ {myId},
                         !.connectionStatus = "connected"], peers \ {myId})

\* case 'JOIN' of handleSignalingMessage.
handleJoin(c, peerId) ==
    IF peerId = c.myId THEN c
    ELSE connectPeer([c EXCEPT !.peers = @ \cup {peerId}], peerId)

\* The onConnectionStateChange callback that constructPeer gives session i.
onConnectionStateChange(c, i, state) ==
    [c EXCEPT !.peerConnectionState[c.sessions[i].peerId] =
                 IF state = "connected" THEN "connected" ELSE "not connected"]

\* pc.onconnectionstatechange of the Peer of session i.
connectionStateEvent(c, i, state) ==
    LET r == onconnectionstatechange(c.sessions[i].p, state)
        c1 == [c EXCEPT !.sessions[i].p = r.p]
    IN  IF r.reported = "null" THEN c1 ELSE onConnectionStateChange(c1, i, r.reported)

\* Mutant: cleanupPeerConnections() clears the map without destroying the Peers.
cleanupPeerConnectionsClearOnly(c) ==
    [c EXCEPT !.peerConnections = [r \in Remotes |-> 0]]

\* cleanupPeerConnections(): every registered Peer is destroyed, then the map
\* is cleared.
RECURSIVE destroyEach(_, _)
destroyEach(c, is) ==
    IF is = {} THEN c
    ELSE LET i == CHOOSE x \in is : \A y \in is : x <= y
         IN  destroyEach(ctlDestroy(c, i), is \ {i})

cleanupPeerConnections(c) ==
    [destroyEach(c, {c.peerConnections[r] : r \in Remotes} \ {0})
        EXCEPT !.peerConnections = [r \in Remotes |-> 0]]

\* Mutant: onClose leaves the recorded session ids in place.
onCloseKeepsSessionIds(c) ==
    [cleanupPeerConnections([c EXCEPT !.connectionStatus = "disconnected"])
        EXCEPT !.peers = {},
               !.peerConnectionState = [r \in Remotes |-> "absent"]]

\* The onClose callback the constructor gives the SignalingConnection.
onClose(c) ==
    [cleanupPeerConnections([c EXCEPT !.connectionStatus = "disconnected"])
        EXCEPT !.peers = {},
               !.peerConnectionState = [r \in Remotes |-> "absent"],
               !.peerSessionById = [r \in Remotes |-> 0]]

\* WebRTCController.destroy().
controllerDestroy(c) ==
    [cleanupPeerConnections(c)
        EXCEPT !.destroyed = TRUE,
               !.peers = {},
               !.peerConnectionState = [r \in Remotes |-> "absent"],
               !.peerSessionById = [r \in Remotes |-> 0],
               !.connectionStatus = "disconnected"]

\* ------------------------------------------------------------ PeerManager

\* The session ids a PeerManager may see: drawn by the remote side (1, 2, ..)
\* or by crypto.randomUUID() on this side (101, 102, ..).
ManagerSessionIds == (1..MaxRemoteSessions) \cup (101..(100 + MaxEvents))

\* The fields of PeerManager (0 stands for an absent map entry), the Peers it
\* constructed (sessions), its _handleOffer calls not yet returned (offers) and
\* history (events, cands, msgs).
NewManager ==
    [peersBySessionId |-> [sid \in ManagerSessionIds |-> 0],
     pendingCandidatesBySessionId |-> [sid \in ManagerSessionIds |-> <<>>],
     sessions |-> <<>>,
     offers |-> <<>>,
     fresh |-> 0,
     events |-> <<>>,
     cands |-> <<>>,
     last |-> <<>>,
     msgs |-> 0,
     returned |-> 0]                   \* the session the last startSession() returned

mgrDestroy(m, i) ==
    [m EXCEPT !.sessions[i] = [@ EXCEPT !.destroyed = TRUE, !.p = destroy(@)],
              !.events = Append(@, <<"destroy", i>>)]

mgrRegister(m, peerId, sessionId, p) ==
    [m EXCEPT !.sessions = Append(@, Session(peerId, sessionId, p)),
              !.peersBySessionId[sessionId] = Len(m.sessions) + 1,
              !.events = Append(@, <<"register", Len(m.sessions) + 1>>)]

\* startSession(peerId, sessionId); sessionId 0 stands for the default, a
\* fresh crypto.randomUUID().
\* Mutant: startSession() without its lookup of the session id.
startSessionNoLookup(m, peerId, sessionId) ==
    LET sid == IF sessionId = 0 THEN 100 + m.fresh + 1 ELSE sessionId
        m1 == IF sessionId = 0 THEN [m EXCEPT !.fresh = @ + 1] ELSE m
        m2 == mgrRegister(m1, peerId, sid, createPeerConnection(NewPeer(TRUE)))
    IN  [m2 EXCEPT !.returned = Len(m2.sessions)]

startSession(m, peerId, sessionId) ==
    LET sid == IF sessionId = 0 THEN 100 + m.fresh + 1 ELSE sessionId
        m1 == IF sessionId = 0 THEN [m EXCEPT !.fresh = @ + 1] ELSE m
    IN  IF m1.peersBySessionId[sid] # 0
        THEN [m1 EXCEPT !.returned = m1.peersBySessionId[sid]]
        ELSE LET m2 == mgrRegister(m1, peerId, sid, createPeerConnection(NewPeer(TRUE)))
             IN  [m2 EXCEPT !.returned = Len(m2.sessions)]

\* The loop of _flushPendingCandidates over its local array for the _handleOffer
\* call k: each HandleCandidate is awaited, so the loop suspends whenever
\* the Peer hands the candidate to the transport.
RECURSIVE mgrFlushLoop(_, _, _)
mgrFlushLoop(m, k, pending) ==
    LET i == m.offers[k].session
    IN  IF pending = <<>> THEN [m EXCEPT !.offers[k].at = "done", !.offers[k].cands = <<>>]
        ELSE LET p == m.sessions[i].p
                 p1 == candidateArrives(p, Head(pending).kind)
                 m1 == [m EXCEPT !.cands = Append(@, [Head(pending) EXCEPT !.to = i])]
             IN  IF Len(p1.ops) > Len(p.ops)
                 THEN [m1 EXCEPT !.sessions[i].p = [p1 EXCEPT !.ops[Len(p1.ops)].task = -k],
                                 !.offers[k].at = "flush",
                                 !.offers[k].cands = Tail(pending)]
                 ELSE mgrFlushLoop([m1 EXCEPT !.sessions[i].p = p1], k, Tail(pending))

_flushPendingCandidates(m, k) ==
    LET sid == m.offers[k].sessionId
        pending == m.pendingCandidatesBySessionId[sid]
    IN  IF pending = <<>> THEN [m EXCEPT !.offers[k].at = "done"]
        ELSE mgrFlushLoop([m EXCEPT !.pendingCandidatesBySessionId[sid] = <<>>], k, pending)

\* _handleOffer(msg) to its first suspension, await peer.HandlerOffer.
_handleOffer(m, peerId, sessionId) ==
    LET m1 == IF m.peersBySessionId[sessionId] = 0
              THEN mgrRegister(m, peerId, sessionId, NewPeer(FALSE))
              ELSE m
        i == m1.peersBySessionId[sessionId]
        p1 == HandlerOffer(m1.sessions[i].p)
    IN  [m1 EXCEPT !.sessions[i].p = p1,
                   !.offers = Append(@, [session |-> i, sessionId |-> sessionId,
                                         task |-> Len(p1.tasks),
                                         at |-> "HandlerOffer", cands |-> <<>>])]

_handleAnswer(m, sessionId) ==
    IF m.peersBySessionId[sessionId] = 0 THEN m
    ELSE [m EXCEPT !.sessions[m.peersBySessionId[sessionId]].p = HandleAnswer(@)]

_handleCandidate(m, peerId, sessionId, kind) ==
    IF kind = "null" THEN m
    ELSE LET i == m.peersBySessionId[sessionId]
             c == [peerId |-> peerId, sessionId |-> sessionId, kind |-> kind, to |-> i,
                   seq |-> m.msgs + 1]   \* the message's place in the relay's delivery
         IN  IF i = 0
             THEN [m EXCEPT !.pendingCandidatesBySessionId[sessionId] = Append(@, c)]
             ELSE [m EXCEPT !.sessions[i].p = candidateArrives(@, kind),
                            !.cands = Append(@, c)]

\* Mutant: removePeerByPeerId stops at the first session of the remote id.
removeFirstSession(m, peerId, sids) ==
    LET mine == {sid \in sids : m.peersBySessionId[sid] # 0
                                /\ m.sessions[m.peersBySessionId[sid]].peerId = peerId}
    IN  IF mine = {} THEN m
        ELSE LET sid == CHOOSE x \in mine : \A y \in mine : x <= y
             IN  [mgrDestroy(m, m.peersBySessionId[sid])
                     EXCEPT !.peersBySessionId[sid] = 0,
                            !.pendingCandidatesBySessionId[sid] = <<>>]

RECURSIVE removeSessions(_, _, _)
removeSessions(m, peerId, sids) ==
    IF sids = {} THEN m
    ELSE LET sid == CHOOSE x \in sids : \A y \in sids : x <= y
             i == m.peersBySessionId[sid]
         IN  IF i = 0 \/ m.sessions[i].peerId # peerId
             THEN removeSessions(m, peerId, sids \ {sid})
             ELSE removeSessions(
                     [mgrDestroy(m, i) EXCEPT !.peersBySessionId[sid] = 0,
                                              !.pendingCandidatesBySessionId[sid] = <<>>],
                     peerId, sids \ {sid})

removePeerByPeerId(m, peerId) == removeSessions(m, peerId, ManagerSessionIds)

RECURSIVE destroySessions(_, _)
destroySessions(m, is) ==
    IF is = {} THEN m
    ELSE LET i == CHOOSE x \in is : \A y \in is : x <= y
         IN  destroySessions(mgrDestroy(m, i), is \ {i})

\* PeerManager.destroy().
destroyManager(m) ==
    LET m1 == destroySessions(m, {m.peersBySessionId[sid] : sid \in ManagerSessionIds} \ {0})
    IN  [m1 EXCEPT !.peersBySessionId = [sid \in ManagerSessionIds |-> 0],
                   !.pendingCandidatesBySessionId = [sid \in ManagerSessionIds |-> <<>>]]

\* The transport of session i settles its oldest promise: the Peer's call resumes,
\* and so does a _handleOffer call awaiting it.
mgrSettle(m, i, ok) ==
    LET o == Head(m.sessions[i].p.ops)
        m1 == [m EXCEPT !.sessions[i].p = settle(@, ok)]
        done == {k \in 1..Len(m1.offers) :
                    /\ m1.offers[k].session = i /\ m1.offers[k].at = "HandlerOffer"
                    /\ m1.sessions[i].p.tasks[m1.offers[k].task].at = "done"}
    IN  IF o.task < 0 THEN mgrFlushLoop(m1, -o.task, m1.offers[-o.task].cands)
        ELSE IF done # {} THEN _flushPendingCandidates(m1, CHOOSE k \in done : TRUE)
        ELSE m1

\* ---------------------------------------------------------- initiator rule

\* The code units ids are made of here: '1', 'B', 'a'.
CodeUnits == {49, 66, 97}

\* The rank of a code unit in the collation order of String.localeCompare:
\* digits before letters, letters alphabetically whatever their case.
CollationKey(u) == CASE u = 49 -> 1 [] u = 97 -> 2 [] u = 66 -> 3

\* a.localeCompare(b): negative, zero or positive.
RECURSIVE localeCompare(_, _)
localeCompare(a, b) ==
    IF a = <<>> /\ b = <<>> THEN 0
    ELSE IF a = <<>> THEN -1
    ELSE IF b = <<>> THEN 1
    ELSE IF CollationKey(Head(a)) < CollationKey(Head(b)) THEN -1
    ELSE IF CollationKey(Head(a)) > CollationKey(Head(b)) THEN 1
    ELSE localeCompare(Tail(a), Tail(b))

\* shouldInitiate(peerId) of the application; me = <<>> stands for me = null.
shouldInitiate(me, peerId) ==
    IF me = <<>> THEN FALSE ELSE localeCompare(me, peerId) < 0

\* The initiator rule of a client: the controller's or the application's.
Initiates(rule, myId, peerId) ==
    IF rule = "connectPeer" THEN shouldConnect(myId, peerId)
    ELSE shouldInitiate(myId, peerId)

RECURSIVE IdsOfLen(_)
IdsOfLen(n) ==
    IF n = 0 THEN {<<>>}
    ELSE {<<u>> \o id : u \in CodeUnits, id \in IdsOfLen(n - 1)}

\* The ids a relay may assign: non-empty strings of at most MaxIdLen code units.
RelayIds == UNION {IdsOfLen(n) : n \in 1..MaxIdLen}

IdleRegistry ==
    /\ ctl = NewController
    /\ mgr = NewManager
    /\ pair = 0

\* ------------------------------------------------------ SignalingConnection

RECONNECT_DELAY_MS == 5000

defaultStunServer == "stun:stun.l.google.com:19302"

IceModes == {"server", "stun", "none"}

\* The fields of SignalingConnection, every WebSocket and every timer it made
\* (sockets, timers) and history: the callbacks it invoked (calls), the send()
\* calls and their results (sends), the HELLO payloads it was handed (hellos).
\* socket and _reconnectTimer are indexes into sockets and timers, 0 for null.
NewSignalingFields(info, iceMode) ==
    [info |-> info,                   \* this.info !== null
     _iceMode |-> iceMode,
     _iceServers |-> <<>>,
     socket |-> 0,
     _reconnectTimer |-> 0,
     _isDestroyed |-> FALSE,
     sockets |-> <<>>,
     timers |-> <<>>,
     calls |-> <<>>,
     sends |-> <<>>,
     hellos |-> <<>>,
     socketsAtDestroy |-> -1,         \* Len(sockets) at the first destroy()
     callsAtDestroy |-> -1]           \* Len(calls) at the first destroy()

_isConnected(s) == s.socket # 0 /\ s.sockets[s.socket].readyState = "OPEN"

_isConnecting(s) == s.socket # 0 /\ s.sockets[s.socket].readyState = "CONNECTING"

\* clearTimeout of a timer that has fired already changes nothing of it.
_clearReconnectTimer(s) ==
    IF s._reconnectTimer = 0 THEN s
    ELSE [s EXCEPT !.timers[s._reconnectTimer].state =
                        IF @ = "pending" THEN "cleared" ELSE @,
                   !._reconnectTimer = 0]

\* The socket as a send() call finds it: absent, or its readyState.
socketState(s) == IF s.socket = 0 THEN "none" ELSE s.sockets[s.socket].readyState

\* Mutant: send() hands the message to a socket that is still connecting.
sendWhileConnecting(s, msg) ==
    IF ~(_isConnected(s) \/ _isConnecting(s))
    THEN [s EXCEPT !.sends = Append(@, [msg |-> msg, result |-> FALSE,
                                        at |-> socketState(s)])]
    ELSE [s EXCEPT !.sockets[s.socket].out = Append(@, msg),
                   !.sends = Append(@, [msg |-> msg, result |-> TRUE,
                                        at |-> socketState(s)])]

\* send(msg): the entry of sends keeps the result and the state of the socket.
send(s, msg) ==
    IF ~_isConnected(s)
    THEN [s EXCEPT !.sends = Append(@, [msg |-> msg, result |-> FALSE,
                                        at |-> socketState(s)])]
    ELSE [s EXCEPT !.sockets[s.socket].out = Append(@, msg),
                   !.sends = Append(@, [msg |-> msg, result |-> TRUE,
                                        at |-> socketState(s)])]

\* Mutant: getIceServers() preferring the relay's list in mode stun as well.
getIceServersPreferRelay(s) ==
    IF s._iceMode = "none" THEN <<>>
    ELSE IF Len(s._iceServers) > 0 THEN s._iceServers
    ELSE <<defaultStunServer>>

getIceServers(s) ==
    IF s._iceMode = "none" THEN <<>>
    ELSE IF s._iceMode = "stun" THEN <<defaultStunServer>>
    ELSE IF Len(s._iceServers) > 0 THEN s._iceServers
    ELSE <<defaultStunServer>>

\* An invocation of one of the callbacks given to the constructor; sent is the
\* number of messages written so far to the socket whose event it reports.
notify(s, cb, k) ==
    [s EXCEPT !.calls = Append(@, [cb |-> cb, socket |-> k,
                                   sent |-> Len(s.sockets[k].out)])]

\* _connect(), called by the constructor (by = 0) or by the reconnect timer by.
_connect(s, by) ==
    IF s._isDestroyed THEN s
    ELSE IF _isConnected(s) \/ _isConnecting(s) THEN s
    ELSE LET s1 == _clearReconnectTimer(s)
             ws == [readyState |-> "CONNECTING", attached |-> TRUE, out |-> <<>>,
                    by |-> by,
                    waited |-> IF by = 0 THEN 0 ELSE s.timers[by].elapsed]
         IN  [s1 EXCEPT !.sockets = Append(@, ws), !.socket = Len(s.sockets) + 1]

NewSignaling(info, iceMode) == _connect(NewSignalingFields(info, iceMode), 0)

UpdateMsg == [type |-> "UPDATE", id |-> 0]

\* Mutant: ws.onopen notifying the owner before it announces the identity.
onopenNotifyFirst(s, k) ==
    LET s1 == notify(s, "onOpen", k)
    IN  IF s1.info THEN send(s1, UpdateMsg) ELSE s1

\* ws.onopen of socket k.
onopen(s, k) ==
    LET s1 == IF s.info THEN send(s, UpdateMsg) ELSE s
    IN  notify(s1, "onOpen", k)

\* ws.onmessage of socket k: data is text that JSON.parse refuses ("garbage"),
\* or a message; a HELLO carries iceServers (a list, maybe empty) or none.
onmessage(s, k, data) ==
    IF data.type = "garbage" THEN notify(s, "onError", k)
    ELSE LET s1 == IF data.type = "HELLO"
                   THEN [s EXCEPT !.hellos = Append(@, data.iceServers),
                                  !._iceServers = IF data.iceServers.present
                                                  THEN data.iceServers.list ELSE @]
                   ELSE s
         IN  notify(s1, "onMessage", k)

\* ws.onerror of socket k.
onerror(s, k) == notify(s, "onError", k)

\* Mutant: _handleClose() reconnecting at once instead of arming the timer.
_handleCloseNoDelay(s, k) ==
    LET s1 == notify([s EXCEPT !.socket = 0], "onClose", k)
    IN  IF s1._isDestroyed THEN s1
        ELSE LET s2 == _clearReconnectTimer(s1)
                 s3 == [s2 EXCEPT !.timers = Append(@, [state |-> "fired", elapsed |-> 0,
                                                         close |-> k]),
                                  !._reconnectTimer = Len(s2.timers) + 1]
             IN  _connect(s3, Len(s3.timers))

\* _handleClose(event), the ws.onclose of socket k.
_handleClose(s, k) ==
    LET s1 == notify([s EXCEPT !.socket = 0], "onClose", k)
    IN  IF s1._isDestroyed THEN s1
        ELSE LET s2 == _clearReconnectTimer(s1)
             IN  [s2 EXCEPT !.timers = Append(@, [state |-> "pending", elapsed |-> 0,
                                                   close |-> k]),
                            !._reconnectTimer = Len(s2.timers) + 1]

\* Mutant: destroy() leaving the reconnect timer armed.
sigDestroyKeepTimer(s) ==
    LET s1 == [s EXCEPT !._isDestroyed = TRUE,
                        !.socketsAtDestroy = IF @ >= 0 THEN @ ELSE Len(s.sockets),
                        !.callsAtDestroy = IF @ >= 0 THEN @ ELSE Len(s.calls)]
    IN  IF s1.socket = 0 THEN s1
        ELSE [s1 EXCEPT !.sockets[s1.socket] =
                            [@ EXCEPT !.attached = FALSE,
                                      !.readyState = IF @ = "CLOSED" THEN @ ELSE "CLOSING"],
                        !.socket = 0]

\* destroy() of the SignalingConnection; socket.close() starts the closing
\* handshake of a socket that is not closed yet.
sigDestroy(s) ==
    LET s1 == _clearReconnectTimer(
                [s EXCEPT !._isDestroyed = TRUE,
                          !.socketsAtDestroy = IF @ >= 0 THEN @ ELSE Len(s.sockets),
                          !.callsAtDestroy = IF @ >= 0 THEN @ ELSE Len(s.calls)])
    IN  IF s1.socket = 0 THEN s1
        ELSE [s1 EXCEPT !.sockets[s1.socket] =
                            [@ EXCEPT !.attached = FALSE,
                                      !.readyState = IF @ = "CLOSED" THEN @ ELSE "CLOSING"],
                        !.socket = 0]

\* No SignalingConnection has been constructed.
NoSignaling == NewSignalingFields(FALSE, "server")

IdleSignaling == sig = NoSignaling

\* ------------------------------------------- codec round trip (SpecCodec)

NoOp == [op |-> "none", len |-> 0, settledBefore |-> FALSE]

NoCall == [start |-> 0, chunks |-> 0, lastLen |-> 0, notes |-> <<>>, done |-> TRUE,
           calls |-> 0]

InitCodec ==
    /\ IdleSignaling
    /\ \E size \in 0..MaxFileSize, cs \in 1..MaxChunkSize, mps \in 1..MaxPartitionCap :
          /\ chunker = FileChunker(size, cs, mps)
          /\ digester = FileDigester(size)
    /\ emitted = <<>>
    /\ boundaries = <<>>
    /\ call = NoCall
    /\ overlapThrown = FALSE
    /\ lastOp = NoOp
    /\ IdleXfer
    /\ IdlePeer
    /\ IdleRegistry

\* The driver calls nextPartition(); every emitted chunk goes to the digester.
CodecNextPartition ==
    LET r == nextPartition(chunker)
    IN  /\ chunker' = r.chunker
        /\ overlapThrown' = (overlapThrown \/ r.threw)
        /\ call' = IF r.threw THEN call
                   ELSE [start |-> chunker.offset, chunks |-> 0, lastLen |-> 0,
                         notes |-> r.notes, done |-> ~r.chunker.inProgress,
                         calls |-> Min(call.calls + 1, MaxFileSize + 2)]
        /\ boundaries' = boundaries \o r.notes
        /\ UNCHANGED <<sig, digester, emitted, lastOp, xferVars, peer, registryVars>>

CodecChunkRead ==
    /\ chunker.inProgress
    /\ LET r == chunkRead(chunker)
       IN  /\ chunker' = r.chunker
           /\ emitted' = emitted \o r.chunks
           /\ digester' = unchunkAll(digester, r.chunks)
           /\ boundaries' = boundaries \o r.notes
           /\ call' = [call EXCEPT
                         !.chunks = @ + Len(r.chunks),
                         !.lastLen = IF r.chunks = <<>> THEN @ ELSE r.chunks[1].len,
                         !.notes = @ \o r.notes,
                         !.done = ~r.chunker.inProgress]
           /\ lastOp' = IF r.chunks = <<>> THEN lastOp
                        ELSE [op |-> "unchunk", len |-> r.chunks[1].len,
                              settledBefore |-> digester.settled]
    /\ UNCHANGED <<sig, overlapThrown, xferVars, peer, registryVars>>

NextCodec == CodecNextPartition \/ CodecChunkRead

SpecCodec == InitCodec /\ [][NextCodec]_vars

\* The chunks of a sequence follow one another from byte 0 without gap or overlap.
RECURSIVE ContiguousFrom(_, _)
ContiguousFrom(chunks, at) ==
    \/ chunks = <<>>
    \/ /\ Head(chunks).off = at
       /\ Head(chunks).len > 0
       /\ ContiguousFrom(Tail(chunks), at + Head(chunks).len)


\* C7: each nextPartition() call emits consecutive chunks until the source is
\* exhausted or the bytes emitted in that call reach the partition cap (it
\* neither stops early nor reads on once the cap is reached), and it notifies a
\* partition boundary, carrying the new cumulative offset, if and only if the
\* cap was reached and the end of the file was not.
C7_PartitionRule ==
    LET sent == chunker.offset - call.start
        capReached == sent >= chunker.maxPartitionSize
        fileEnd == chunker.offset >= chunker.size
    IN  /\ ContiguousFrom(emitted, 0)
        /\ TotalLen(emitted) = chunker.offset
        /\ ~call.done => (~fileEnd /\ ~capReached /\ call.notes = <<>>)
        /\ call.done =>
              /\ call.calls > 0 => (fileEnd \/ capReached)
              /\ call.chunks > 0 => sent - call.lastLen < chunker.maxPartitionSize
              /\ call.notes = IF capReached /\ ~fileEnd THEN <<chunker.offset>> ELSE <<>>

\* C7 witness: a call that emitted several chunks, reached the cap before the end
\* of the file and notified the boundary.
C7_Witness ==
    /\ call.done /\ call.chunks >= 2 /\ call.notes = <<chunker.offset>>
    /\ chunker.offset < chunker.size

\* C10: once the chunker has been driven to the end of the file, the digester
\* declared with the same size is resolved (once, never rejected) with exactly
\* the original byte sequence, and both progress values equal 1.
C10_RoundTrip ==
    (isFileEnd(chunker) /\ ~chunker.inProgress) =>
        /\ digester.resolves = 1 /\ digester.rejects = 0
        /\ BlobBytes(digester.blob) = FileBytes(chunker.size)
        /\ ProgressIsOne(chunkerProgress(chunker))
        /\ ProgressIsOne(digesterProgress(digester))

\* C10 witness: a file of several chunks and at least one partition boundary
\* has been driven to its end.
C10_Witness ==
    /\ isFileEnd(chunker) /\ ~chunker.inProgress
    /\ Len(emitted) >= 3 /\ boundaries # <<>>
    /\ digester.resolves = 1

\* ------------------------------------- digester under any input (SpecDigest)

InitDigest ==
    /\ IdleSignaling
    /\ \E size \in 0..MaxFileSize : digester = FileDigester(size)
    /\ chunker = FileChunker(0, 1, 1)
    /\ emitted = <<>>
    /\ boundaries = <<>>
    /\ call = NoCall
    /\ overlapThrown = FALSE
    /\ lastOp = NoOp
    /\ IdleXfer
    /\ IdlePeer
    /\ IdleRegistry

DigestUnchunk ==
    \E len \in 0..MaxChunkLen, off \in 0..1 :
        /\ digester' = unchunk(digester, [off |-> off, len |-> len])
        /\ lastOp' = [op |-> "unchunk", len |-> len, settledBefore |-> digester.settled]
        /\ UNCHANGED <<sig, chunker, emitted, boundaries, call, overlapThrown, xferVars, peer, registryVars>>

DigestAbort ==
    /\ digester' = abort(digester)
    /\ lastOp' = [op |-> "abort", len |-> 0, settledBefore |-> digester.settled]
    /\ UNCHANGED <<sig, chunker, emitted, boundaries, call, overlapThrown, xferVars, peer, registryVars>>

NextDigest == DigestUnchunk \/ DigestAbort

SpecDigest == InitDigest /\ [][NextDigest]_vars

\* C8: bytesReceived never exceeds the declared size, and an unchunk whose chunk
\* is larger than the remaining expected bytes stores nothing (bytesReceived
\* and the buffer unchanged) and rejects the completion signal.
C8_NeverExceeds ==
    /\ [](digester.bytesReceived <= digester.size)
    /\ [](TotalLen(digester.buffer) = digester.bytesReceived)
    /\ [][(/\ lastOp'.op = "unchunk"
            /\ ~digester.settled
            /\ lastOp'.len > digester.size - digester.bytesReceived)
          => (/\ digester'.bytesReceived = digester.bytesReceived
              /\ digester'.buffer = digester.buffer
              /\ digester'.settled
              /\ digester'.rejects = 1
              /\ digester'.resolves = 0)]_vars

\* C8 witness: an oversized chunk arrived after part of the file was stored and
\* the digest was rejected.
C8_Witness ==
    /\ lastOp.op = "unchunk" /\ ~lastOp.settledBefore
    /\ digester.bytesReceived > 0
    /\ lastOp.len > digester.size - digester.bytesReceived
    /\ digester.rejects = 1

\* C9: the completion signal is settled at most once, resolved only on reaching
\* exactly the declared size or else rejected, never both; every unchunk or
\* abort after settlement changes no state of the digester.
C9_SettledOnce ==
    /\ [](/\ digester.resolves + digester.rejects <= 1
          /\ digester.settled <=> (digester.resolves + digester.rejects = 1)
          /\ digester.resolves = 1 => digester.bytesReceived = digester.size)
    /\ [][digester.settled => digester' = digester]_vars

\* C9 witness: an unchunk or abort was applied to a digester that had already
\* been rejected.
C9_Witness ==
    /\ lastOp.settledBefore /\ lastOp.op = "abort"
    /\ digester.rejects = 1


\* ------------------------------------------------------------ FileTransfer

\* What a chunker step hands to its callbacks: onChunk -> sendRaw(chunk), then
\* onPartitionEnd -> sendJSON(partition).
emit(r) ==
    [i \in 1..Len(r.chunks) |-> Msg("chunk", r.chunks[i].off, r.chunks[i].len)]
    \o [i \in 1..Len(r.notes) |-> Msg("partition", r.notes[i], 0)]

afterPartitionStep(f, r) ==
    [f EXCEPT !.chunker = r.chunker,
              !.parts = @ \o r.notes,
              !.threw = @ \/ r.threw,
              !.early = @ \/ (r.chunks # <<>> /\ Len(f.parts) > f.acks)]

sendFile(f, file) ==
    LET r == nextPartition(FileChunker(file, opts.chunkSize, opts.maxPartitionSize))
        f1 == [f EXCEPT !.sentSizes = Append(@, file),
                        !.reads = @ + (IF r.chunker.inProgress THEN 1 ELSE 0)]
    IN  [ft |-> afterPartitionStep(f1, r),
         out |-> <<Msg("header", file, 0)>> \o emit(r)]

dequeueFile(f) ==
    IF f.filesQueue = <<>>
    THEN [ft |-> [f EXCEPT !.busy = FALSE], out |-> <<>>]
    ELSE sendFile([f EXCEPT !.filesQueue = Tail(@), !.busy = TRUE], Head(f.filesQueue))

\* Mutant: sendFiles() without its busy check.
sendFilesNoBusyCheck(f, files) == dequeueFile([f EXCEPT !.filesQueue = @ \o files])

sendFiles(f, files) ==
    LET f1 == [f EXCEPT !.filesQueue = @ \o files]
    IN  IF f1.busy THEN [ft |-> f1, out |-> <<>>] ELSE dequeueFile(f1)

sendNextPartition(f) ==
    IF f.chunker = Null \/ isFileEnd(f.chunker)
    THEN [ft |-> f, out |-> <<>>]
    ELSE LET r == nextPartition(f.chunker)
             f1 == [f EXCEPT !.reads = @ + (IF r.threw THEN 0 ELSE 1)]
         IN  [ft |-> afterPartitionStep(f1, r), out |-> emit(r)]

onReceivedPartitionEnd(f, offset) ==
    [ft |-> f, out |-> <<Msg("partition-received", offset, 0)>>]

\* Mutant: transfer-complete is sent before the file-received callback runs.
doneThenReplyFirst(f) ==
    [ft |-> [f EXCEPT !.log = @ \o <<"T", "F">>,
                      !.received = Append(@, [size |-> f.digester.size,
                                              bytes |-> f.digester.bytesReceived]),
                      !.deliveredOf = Append(@, f.headers)],
     out |-> <<Msg("transfer-complete", 0, 0)>>]

\* Mutant: the progress case falls through to the partition-received case.
onDownloadProgressFallthrough(f, p) == sendNextPartition(f)

\* onProgress?.(progress): a log line, no state.
onDownloadProgress(f, p) == [ft |-> f, out |-> <<>>]

\* The reaction registered on digester.done by onFileHeader: it runs as a
\* microtask of the step in which the digester resolves.
doneThen(f) ==
    [ft |-> [f EXCEPT !.log = @ \o <<"F", "T">>,
                      !.received = Append(@, [size |-> f.digester.size,
                                              bytes |-> f.digester.bytesReceived]),
                      !.deliveredOf = Append(@, f.headers)],
     out |-> <<Msg("transfer-complete", 0, 0)>>]

\* Mutant: the previous digester is replaced without being aborted.
abortPreviousSkipped(f) ==
    IF f.digester = Null THEN f
    ELSE [f EXCEPT !.replaced = Append(@, [header |-> f.headers,
                                           pending |-> ~f.digester.settled,
                                           digester |-> f.digester])]

\* this.digester?.abort(...) of onFileHeader: a digester still pending is
\* rejected (its catch reaction only logs); the digester is then left behind.
abortPrevious(f) ==
    IF f.digester = Null THEN f
    ELSE [f EXCEPT !.replaced = Append(@, [header |-> f.headers,
                                           pending |-> ~f.digester.settled,
                                           digester |-> abort(f.digester)])]

onFileHeader(f, size) ==
    LET f1 == [abortPrevious(f) EXCEPT !.lastProgress = <<0, 1>>,
                                       !.digester = FileDigester(size),
                                       !.headers = @ + 1,
                                       !.since = <<>>]
    IN  IF f1.digester.resolves = 1 THEN doneThen(f1) ELSE [ft |-> f1, out |-> <<>>]

\* progress - lastProgress < 0.01 on the fractions (exact arithmetic).
LessThanOnePercent(p, q) ==
    IF q[1] = 0 THEN 100 * p[1] < p[2]
    ELSE IF p[2] = q[2] THEN 100 * (p[1] - q[1]) < p[2]
    ELSE 100 * (p[1] * q[2] - q[1] * p[2]) < p[2] * q[2]

onChunkReceived(f, chunk) ==
    IF f.digester = Null THEN [ft |-> f, out |-> <<>>]
    ELSE IF chunk.len = 0 THEN [ft |-> f, out |-> <<>>]
    ELSE LET d == unchunk(f.digester, chunk)
             p == digesterProgress(d)
             skip == LessThanOnePercent(p, f.lastProgress) /\ p[1] < p[2]
             f1 == [f EXCEPT !.digester = d, !.lastProgress = IF skip THEN @ ELSE p,
                             !.since = Append(@, chunk)]
             out1 == IF skip THEN <<>> ELSE <<Msg("progress", p[1], p[2])>>
         IN  IF d.resolves > f.digester.resolves
             THEN LET r == doneThen(f1) IN [ft |-> r.ft, out |-> out1 \o r.out]
             ELSE [ft |-> f1, out |-> out1]

\* Mutant: transfer-complete marks the engine idle without dequeuing.
onTransferCompletedNoDequeue(f) ==
    [ft |-> [f EXCEPT !.chunker = Null, !.busy = FALSE, !.tcSeen = @ + 1], out |-> <<>>]

onTransferCompletedByPeer(f) ==
    dequeueFile([f EXCEPT !.chunker = Null, !.busy = FALSE, !.tcSeen = @ + 1])

\* Mutant: a message of unknown type is handled as transfer-complete.
handleIncomingMessageUnknownCompletes(f, m) ==
    CASE m.type = "chunk" -> onChunkReceived(f, [off |-> m.a, len |-> m.b])
      [] m.type = "unparseable" -> [ft |-> f, out |-> <<>>]
      [] m.type = "header" -> onFileHeader(f, m.a)
      [] m.type = "partition" -> onReceivedPartitionEnd(f, m.a)
      [] m.type = "partition-received" -> sendNextPartition([f EXCEPT !.acks = @ + 1])
      [] m.type = "progress" -> onDownloadProgress(f, <<m.a, m.b>>)
      [] OTHER -> onTransferCompletedByPeer(f)

\* A binary frame has type "chunk"; a text frame that JSON.parse rejects has
\* type "unparseable" (the catch returns); other text frames carry their type.
handleIncomingMessage(f, m) ==
    CASE m.type = "chunk" -> onChunkReceived(f, [off |-> m.a, len |-> m.b])
      [] m.type = "unparseable" -> [ft |-> f, out |-> <<>>]
      [] m.type = "header" -> onFileHeader(f, m.a)
      [] m.type = "partition" -> onReceivedPartitionEnd(f, m.a)
      [] m.type = "partition-received" -> sendNextPartition([f EXCEPT !.acks = @ + 1])
      [] m.type = "progress" -> onDownloadProgress(f, <<m.a, m.b>>)
      [] m.type = "transfer-complete" -> onTransferCompletedByPeer(f)
      [] OTHER -> [ft |-> f, out |-> <<>>]

\* ------------------------------------------- two engines on one data channel

\* The step of engine e with result r: its frames go to the other end in order.
Deliver(e, r, inbox) ==
    /\ ft' = [ft EXCEPT ![e] = r.ft]
    /\ chan' = [chan EXCEPT ![e] = inbox, ![Other(e)] = @ \o r.out]

\* The user of end e calls sendFiles(files).
XferSendFiles(e) ==
    /\ e \in plan.ends
    /\ \E n \in 1..Min(2, plan.left) :
       \E files \in [1..n -> plan.sizes] :
          /\ Deliver(e, sendFiles(ft[e], files), chan[e])
          /\ plan' = [plan EXCEPT !.left = @ - n]
    /\ UNCHANGED <<sig, opts, codecVars, peer, registryVars>>

\* The data channel delivers its oldest frame to end e (dc.onmessage).
XferReceive(e) ==
    /\ chan[e] # <<>>
    /\ Deliver(e, handleIncomingMessage(ft[e], Head(chan[e])), Tail(chan[e]))
    /\ UNCHANGED <<sig, opts, plan, codecVars, peer, registryVars>>

\* The readChunk() awaited by the chunker of end e settles.
XferChunkRead(e) ==
    /\ ft[e].chunker # Null
    /\ ft[e].chunker.inProgress
    /\ LET r == chunkRead(ft[e].chunker)
       IN  Deliver(e, [ft |-> afterPartitionStep(ft[e], r), out |-> emit(r)], chan[e])
    /\ UNCHANGED <<sig, opts, plan, codecVars, peer, registryVars>>

IdleCodec ==
    /\ chunker = FileChunker(0, 1, 1)
    /\ digester = FileDigester(0)
    /\ emitted = <<>>
    /\ boundaries = <<>>
    /\ call = NoCall
    /\ overlapThrown = FALSE
    /\ lastOp = NoOp

Init ==
    /\ IdleSignaling
    /\ IdleCodec
    /\ IdlePeer
    /\ IdleRegistry
    /\ ft = [e \in Engines |-> NewFileTransfer]
    /\ chan = [e \in Engines |-> <<>>]
    /\ \E cs \in 1..MaxXferChunk, mps \in 1..MaxXferCap :
          opts = [chunkSize |-> cs, maxPartitionSize |-> mps]
    /\ plan = [left |-> MaxFiles, sizes |-> 0..MaxXferFileSize, ends |-> Engines]

Next ==
    \E e \in Engines : XferSendFiles(e) \/ XferReceive(e) \/ XferChunkRead(e)

Spec == Init /\ [][Next]_vars

Reading(f) == f.chunker # Null /\ f.chunker.inProgress

TypeInFlight(e, t) == Cardinality({i \in 1..Len(chan[e]) : chan[e][i].type = t})

\* C3: for each sending end, at most one announced partition is unacknowledged,
\* and no chunk is read or emitted while one is: the next partition starts only
\* after partition-received for the last announced boundary was handled.
C3_OnePartitionOutstanding ==
    \A e \in Engines :
        /\ Len(ft[e].parts) - ft[e].acks \in {0, 1}
        /\ Reading(ft[e]) => Len(ft[e].parts) = ft[e].acks
        /\ ~ft[e].early
        /\ ~ft[e].threw

\* C3 witness: a sender that announced a boundary, got it acknowledged and is
\* reading the next partition.
C3_Witness ==
    /\ ft["A"].acks >= 1 /\ Len(ft["A"].parts) = ft["A"].acks
    /\ Reading(ft["A"])
    /\ ft["A"].chunker.offset = ft["A"].parts[Len(ft["A"].parts)]

\* C4: each sending end has at most one active file: the headers emitted exceed
\* the transfer-complete messages handled by at most one, busy says exactly
\* when they do, and a file waits in the queue only while another is active.
C4_OneActiveFile ==
    \A e \in Engines :
        /\ Len(ft[e].sentSizes) - ft[e].tcSeen \in {0, 1}
        /\ ft[e].busy <=> (Len(ft[e].sentSizes) - ft[e].tcSeen = 1)
        /\ ft[e].filesQueue # <<>> => ft[e].busy

\* C4 witness: the header of a file that had waited in the queue went out after
\* the transfer-complete of the first file.
C4_Witness ==
    /\ Len(ft["A"].sentSizes) = 2 /\ ft["A"].tcSeen = 1
    /\ ft["A"].sentSizes[1] >= 2
    /\ plan.left = 0

\* C5: per direction, every file-received callback is followed at once by one
\* transfer-complete (log = F T F T ...), each for a digester whose
\* bytesReceived equals the size its header declared, in the order of the
\* headers; the sender sees at most one transfer-complete per header, and
\* exactly one per header once nothing is in flight.
C5_ExactlyOneComplete ==
    \A s \in Engines :
        LET fs == ft[s]
            fr == ft[Other(s)]
        IN  /\ Len(fr.received) <= Len(fs.sentSizes)
            /\ \A i \in 1..Len(fr.received) :
                  /\ fr.received[i].size = fs.sentSizes[i]
                  /\ fr.received[i].bytes = fs.sentSizes[i]
            /\ Len(fr.log) = 2 * Len(fr.received)
            /\ \A i \in 1..Len(fr.log) : fr.log[i] = IF i % 2 = 1 THEN "F" ELSE "T"
            /\ fs.tcSeen + TypeInFlight(s, "transfer-complete") = Len(fr.received)
            /\ (chan["A"] = <<>> /\ chan["B"] = <<>> /\ ~Reading(fs))
                  => (fs.tcSeen = Len(fs.sentSizes) /\ fs.filesQueue = <<>>)

\* C5 witness: the sender has seen the transfer-complete of two files, one of
\* them of several chunks.
C5_Witness ==
    /\ ft["A"].tcSeen = 2 /\ ft["A"].sentSizes[1] >= 2
    /\ Len(ft["B"].received) = 2

\* The frames end e put on the data channel in this step.
NewFrames(e) ==
    IF Len(chan'[Other(e)]) > Len(chan[Other(e)])
    THEN SubSeq(chan'[Other(e)], Len(chan[Other(e)]) + 1, Len(chan'[Other(e)]))
    ELSE <<>>

HasType(frames, types) == \E i \in 1..Len(frames) : frames[i].type \in types

\* End e handles the frame at the head of its inbox in this step.
Receives(e) == Len(chan'[e]) = Len(chan[e]) - 1

\* C11: a digester of declared size 0 is completed from its construction
\* (resolved once with an empty file, progress 1, nothing buffered); while the
\* file a sender last announced is a zero-byte file the sender emits no chunk
\* and no partition boundary and does not read; the receiver answers the header
\* of a zero-byte file with transfer-complete in the same step, and once the
\* channel is quiet the sender has handled a transfer-complete for it.
C11_ZeroByteFile ==
    /\ [](\A e \in Engines :
            (ft[e].digester # Null /\ ft[e].digester.size = 0)
            => /\ ft[e].digester.settled
               /\ ft[e].digester.resolves = 1 /\ ft[e].digester.rejects = 0
               /\ ft[e].digester.blob = <<>> /\ ft[e].digester.buffer = <<>>
               /\ ft[e].digester.bytesReceived = 0
               /\ ProgressIsOne(digesterProgress(ft[e].digester)))
    /\ [](\A e \in Engines :
            (ft[e].sentSizes # <<>> /\ ft[e].sentSizes[Len(ft[e].sentSizes)] = 0)
            => /\ ~Reading(ft[e])
               /\ (chan["A"] = <<>> /\ chan["B"] = <<>>)
                     => ft[e].tcSeen = Len(ft[e].sentSizes))
    /\ [][\A e \in Engines :
            /\ (ft'[e].sentSizes # <<>> /\ ft'[e].sentSizes[Len(ft'[e].sentSizes)] = 0)
               => ~HasType(NewFrames(e), {"chunk", "partition"})
            /\ (Receives(e) /\ Head(chan[e]) = Msg("header", 0, 0))
               => /\ NewFrames(e) = <<Msg("transfer-complete", 0, 0)>>
                  /\ ft'[e].received =
                        Append(ft[e].received, [size |-> 0, bytes |-> 0])]_vars

\* C11 witness: A sent one zero-byte file, B received it as an empty file, and
\* A handled the transfer-complete without ever reading or announcing a boundary.
C11_Witness ==
    /\ ft["A"].sentSizes = <<0>> /\ ft["A"].tcSeen = 1
    /\ ft["A"].reads = 0 /\ ft["A"].parts = <<>>
    /\ ft["B"].received = <<[size |-> 0, bytes |-> 0]>>
    /\ ft["B"].digester.resolves = 1

\* The scenario of one large file sent from A to B with the default sizes.
InitScenario ==
    /\ IdleSignaling
    /\ IdleCodec
    /\ IdlePeer
    /\ IdleRegistry
    /\ ft = [e \in Engines |-> NewFileTransfer]
    /\ chan = [e \in Engines |-> <<>>]
    /\ opts = [chunkSize |-> DEFAULT_CHUNK_SIZE_BYTES,
               maxPartitionSize |-> DEFAULT_MAX_PARTITION_SIZE_BYTES]
    /\ plan = [left |-> 1, sizes |-> {ScenarioFileSize}, ends |-> {"A"}]

SpecScenario == InitScenario /\ [][Next]_vars

\* Chunks per full partition with the default sizes: ceil(cap / chunk size).
ChunksPerPartition ==
    (DEFAULT_MAX_PARTITION_SIZE_BYTES + DEFAULT_CHUNK_SIZE_BYTES - 1)
        \div DEFAULT_CHUNK_SIZE_BYTES

\* C6 as claimed: the 2,500,000-byte file is sent with exactly 3 partition
\* boundaries emitted by the time the sender sees transfer-complete.
C6_ThreeBoundaries ==
    ft["A"].tcSeen = 1 => Len(ft["A"].parts) = 3

\* C6 amended: the sender emits exactly 2 partition boundaries, at 1,024,000
\* and 2,048,000 (16 chunks each); the file goes out in 3 partitions, the third
\* ending at the end of the file without a boundary message.
C6_TwoBoundaries ==
    /\ Len(ft["A"].parts) <= 2
    /\ \A i \in 1..Len(ft["A"].parts) :
          ft["A"].parts[i] = i * ChunksPerPartition * DEFAULT_CHUNK_SIZE_BYTES
    /\ ft["A"].reads <= 3
    /\ ft["A"].tcSeen = 1 =>
          /\ Len(ft["A"].parts) = 2
          /\ ft["A"].reads = 3
          /\ ft["B"].received = <<[size |-> ScenarioFileSize, bytes |-> ScenarioFileSize]>>

\* C6 witness: the sender has seen transfer-complete for the file.
C6_Witness ==
    /\ ft["A"].tcSeen = 1 /\ ft["A"].sentSizes = <<ScenarioFileSize>>
    /\ Len(ft["A"].parts) = 2

\* ------------------------------------------- candidate handling (SpecPeer)

\* The registry has constructed the Peer: a caller creates its transport and
\* offers at once (connectToPeer / startSession), a callee waits for an OFFER.
InitPeer ==
    /\ IdleSignaling
    /\ IdleCodec
    /\ IdleXfer
    /\ IdleRegistry
    /\ \E isCaller \in BOOLEAN :
          peer = IF isCaller THEN createPeerConnection(NewPeer(TRUE)) ELSE NewPeer(FALSE)

\* The relay delivers an OFFER for this session.
PeerOffer ==
    /\ peer.negotiations < MaxNegotiations
    /\ peer' = HandlerOffer([peer EXCEPT !.negotiations = @ + 1])
    /\ UNCHANGED <<sig, codecVars, xferVars, registryVars>>

\* The relay delivers an ANSWER for this session.
PeerAnswer ==
    /\ peer.negotiations < MaxNegotiations
    /\ peer' = HandleAnswer([peer EXCEPT !.negotiations = @ + 1])
    /\ UNCHANGED <<sig, codecVars, xferVars, registryVars>>

\* The relay delivers a CANDIDATE for this session.
PeerCandidate ==
    /\ Len(peer.arrivals) < MaxArrivals
    /\ \E kind \in {"cand", "empty", "null"} : peer' = candidateArrives(peer, kind)
    /\ UNCHANGED <<sig, codecVars, xferVars, registryVars>>

\* The transport settles its oldest pending promise, resolving or rejecting it.
PeerSettle ==
    /\ peer.ops # <<>>
    /\ \E ok \in BOOLEAN :
          /\ ok => MayResolve(peer, Head(peer.ops))
          /\ peer' = settle(peer, ok)
    /\ UNCHANGED <<sig, codecVars, xferVars, registryVars>>

NextPeer == PeerOffer \/ PeerAnswer \/ PeerCandidate \/ PeerSettle

SpecPeer == InitPeer /\ [][NextPeer]_vars

\* The HandleCandidate calls whose candidate went into pendingCandidates.
Queued ==
    {n \in 1..Len(peer.arrivals) :
        peer.arrivals[n].kind = "cand" /\ peer.arrivals[n].queued}

\* The positions of `applied` at which candidate n reached the transport.
AppliedAt(n) ==
    {k \in 1..Len(peer.applied) : peer.applied[k].kind = "cand" /\ peer.applied[k].n = n}

InSeq(n, q) == \E k \in 1..Len(q) : q[k] = n

\* A queued candidate is in the buffer, in the local array of a running flush,
\* or has been applied; never in two of them and never applied twice.
QueuedKept ==
    \A n \in Queued :
        Cardinality(AppliedAt(n))
        + (IF InSeq(n, peer.pendingCandidates) THEN 1 ELSE 0)
        + Cardinality({t \in 1..Len(peer.tasks) : InSeq(n, peer.tasks[t].cands)}) = 1

\* Queued candidates reach the transport in the order they arrived in.
QueuedInOrder ==
    \A j, k \in 1..Len(peer.applied) :
        (/\ j < k
         /\ peer.applied[j].kind = "cand" /\ peer.applied[k].kind = "cand"
         /\ peer.applied[j].n \in Queued /\ peer.applied[k].n \in Queued)
        => peer.applied[j].n < peer.applied[k].n

\* A queued end-of-candidates marker reaches the transport after every queued
\* candidate.
QueuedMarkerLast ==
    \A k \in 1..Len(peer.applied) :
        (peer.applied[k].kind = "eoc" /\ peer.applied[k].via = "flush")
        => \A n \in Queued : \E j \in AppliedAt(n) : j < k

\* With a remote description set and no operation pending, nothing is left
\* in the buffer.
QueuedFlushed ==
    (peer.remoteDescription /\ peer.ops = <<>>)
    => /\ peer.pendingCandidates = <<>>
       /\ ~peer.pendingEndOfCandidates
       /\ \A n \in Queued : AppliedAt(n) # {}
       /\ (\E n \in 1..Len(peer.arrivals) :
               peer.arrivals[n].kind = "null" /\ peer.arrivals[n].queued)
          => \E k \in 1..Len(peer.applied) :
               peer.applied[k].kind = "eoc" /\ peer.applied[k].via = "flush"

\* All candidates reach the transport in the order HandleCandidate was called in.
AppliedInArrivalOrder ==
    \A j, k \in 1..Len(peer.applied) :
        (j < k /\ peer.applied[j].kind = "cand" /\ peer.applied[k].kind = "cand")
        => peer.applied[j].n < peer.applied[k].n

\* C1: every candidate that arrived while the transport had no remote
\* description is kept and reaches the transport, once a remote description is
\* set, in its arrival order, and a queued end-of-candidates marker reaches the
\* transport after all of those candidates.
C1_BufferedFlushedInOrder ==
    QueuedKept /\ QueuedInOrder /\ QueuedFlushed /\ QueuedMarkerLast

\* The queued marker has reached the transport ahead of a queued candidate that
\* is still waiting in the local array of a suspended flush.
C1_Witness ==
    \E k \in 1..Len(peer.applied) :
        /\ peer.applied[k].kind = "eoc" /\ peer.applied[k].via = "flush"
        /\ \E n \in Queued : \E t \in 1..Len(peer.tasks) :
              peer.tasks[t].at = "flush" /\ InSeq(n, peer.tasks[t].cands)

\* C2: a candidate or marker arriving while HandlerOffer / HandleAnswer is
\* suspended on setRemoteDescription or inside the candidate flush is queued and
\* not applied at once, and candidates reach the transport in the order in
\* which HandleCandidate was called.
C2_QueuedWhileSuspended ==
    /\ \A n \in 1..Len(peer.arrivals) :
          (peer.arrivals[n].during /\ peer.arrivals[n].kind # "empty")
          => peer.arrivals[n].queued
    /\ AppliedInArrivalOrder

\* A candidate that arrived during the flush has reached the transport while an
\* earlier, queued candidate is still waiting in the flush's local array.
C2_Witness ==
    \E k \in 1..Len(peer.applied) : \E t \in 1..Len(peer.tasks) :
        /\ peer.applied[k].kind = "cand" /\ peer.applied[k].via = "direct"
        /\ peer.arrivals[peer.applied[k].n].during
        /\ peer.tasks[t].at = "flush"
        /\ \E n \in Queued : n < peer.applied[k].n /\ InSeq(n, peer.tasks[t].cands)

\* ------------------------------------------ session registry (SpecController)

InitController ==
    /\ IdleSignaling
    /\ IdleCodec
    /\ IdleXfer
    /\ IdlePeer
    /\ ctl = NewController
    /\ mgr = NewManager
    /\ pair = 0

\* The session ids a relay message for remote r may carry: the one on file for
\* r and the ids the remote side may have drawn.
SessionIdsFor(r) == (1..MaxRemoteSessions) \cup ({ctl.peerSessionById[r]} \ {0})

Relayed(c, what) ==
    /\ ctl.msgs < MaxEvents
    /\ ctl' = [c EXCEPT !.msgs = @ + 1, !.last = what]
    /\ UNCHANGED <<sig, codecVars, xferVars, peer, mgr, pair>>

CtlHello ==
    /\ ctl.myId = <<>>
    /\ \E peers \in SUBSET Remotes : Relayed(handleHello(ctl, MyId, peers), <<"HELLO">>)

CtlJoin == \E r \in Remotes : Relayed(handleJoin(ctl, r), <<"JOIN", r>>)

CtlLeft == \E r \in Remotes : Relayed(handleLeft(ctl, r), <<"LEFT", r>>)

CtlOffer ==
    \E r \in Remotes, sid \in 1..MaxRemoteSessions :
        Relayed(handleIncomingOffer(ctl, r, sid), <<"OFFER", r, sid>>)

CtlAnswer ==
    \E r \in Remotes : \E sid \in SessionIdsFor(r) :
        Relayed(handleIncomingAnswer(ctl, r, sid), <<"ANSWER", r, sid>>)

CtlCandidate ==
    \E r \in Remotes, kind \in {"cand", "null"} : \E sid \in SessionIdsFor(r) :
        Relayed(handleIncomingCandidate(ctl, r, sid, kind), <<"CANDIDATE", r, sid>>)

\* The user asks for a connection to a listed peer.
CtlConnect == \E r \in Remotes : Relayed(connectToPeer(ctl, r), <<"connect", r>>)

\* The transport of a session settles its oldest pending promise.
CtlSettle ==
    \E i \in 1..Len(ctl.sessions), ok \in BOOLEAN :
        /\ ctl.sessions[i].p.ops # <<>>
        /\ ok => MayResolve(ctl.sessions[i].p, Head(ctl.sessions[i].p.ops))
        /\ Relayed([ctl EXCEPT !.sessions[i].p = settle(@, ok)], <<"settle", i>>)

NextController ==
    \/ CtlHello \/ CtlJoin \/ CtlLeft \/ CtlOffer \/ CtlAnswer \/ CtlCandidate
    \/ CtlConnect \/ CtlSettle

SpecController == InitController /\ [][NextController]_vars

Live(c, r) == {i \in 1..Len(c.sessions) : c.sessions[i].peerId = r /\ ~c.sessions[i].destroyed}

EventAt(c, ev) == {k \in 1..Len(c.events) : c.events[k] = ev}

\* C12: the controller has at most one non-destroyed session per remote id, and
\* it is the one on file; a session is registered only after every earlier
\* session of the same remote id was destroyed.
C12_OneSessionPerRemote ==
    /\ \A r \in Remotes :
          /\ Cardinality(Live(ctl, r)) <= 1
          /\ Live(ctl, r) = {ctl.peerConnections[r]} \ {0}
          /\ ctl.peerConnections[r] # 0 =>
                ctl.peerSessionById[r] = ctl.sessions[ctl.peerConnections[r]].sessionId
    /\ \A j \in 1..Len(ctl.sessions) : \A i \in 1..(j - 1) :
          ctl.sessions[i].peerId = ctl.sessions[j].peerId
          => \E kd \in EventAt(ctl, <<"destroy", i>>) :
                \A kr \in EventAt(ctl, <<"register", j>>) : kd < kr

\* C12 witness: an OFFER with a new session id superseded a session whose
\* negotiation had started.
C12_Witness ==
    \E r \in Remotes :
        /\ Len(ctl.sessions) >= 2
        /\ ctl.peerConnections[r] = 2
        /\ ctl.sessions[1].peerId = r /\ ctl.sessions[1].destroyed
        /\ ctl.sessions[1].p.tasks # <<>>
        /\ ~ctl.sessions[2].p.isCaller

\* The fields of the controller and its Peers, without the history of messages.
Registry(c) ==
    [myId |-> c.myId, peers |-> c.peers, peerConnections |-> c.peerConnections,
     peerConnectionState |-> c.peerConnectionState,
     peerSessionById |-> c.peerSessionById, sessions |-> c.sessions,
     fresh |-> c.fresh, events |-> c.events]

\* C14: an ANSWER or CANDIDATE whose session id differs from the one on file
\* for its remote id changes nothing: the registry maps and every session,
\* with its candidate buffer and transport, are as before.
C14_StaleDropped ==
    [][\A r \in Remotes : \A sid \in SessionIdsFor(r) :
         (/\ ctl'.msgs = ctl.msgs + 1
          /\ ctl'.last \in {<<"ANSWER", r, sid>>, <<"CANDIDATE", r, sid>>}
          /\ ctl.peerSessionById[r] # sid)
         => Registry(ctl') = Registry(ctl)]_vars

\* C14 witness: a CANDIDATE for another session id arrived while the session
\* on file was negotiating with a candidate in its buffer, and went nowhere.
C14_Witness ==
    \E r \in Remotes :
        /\ Len(ctl.last) = 3 /\ ctl.last[1] = "CANDIDATE" /\ ctl.last[2] = r
        /\ ctl.peerSessionById[r] \notin {0, ctl.last[3]}
        /\ ctl.sessions[ctl.peerConnections[r]].p.pendingCandidates # <<>>
        /\ ctl.cands[Len(ctl.cands)].to = 0

\* The CANDIDATE messages handled before any session existed for their remote
\* id and session id.
EarlyCandidates(c) ==
    {k \in 1..Len(c.cands) :
        /\ c.cands[k].kind = "cand"
        /\ \A j \in 1..c.cands[k].seen :
              ~(c.sessions[j].peerId = c.cands[k].peerId
                /\ c.sessions[j].sessionId = c.cands[k].sessionId)}

\* The first session made after CANDIDATE k for its remote id and session id
\* (0 if there is none yet).
SessionFor(c, k) ==
    LET js == {j \in (c.cands[k].seen + 1)..Len(c.sessions) :
                  /\ c.sessions[j].peerId = c.cands[k].peerId
                  /\ c.sessions[j].sessionId = c.cands[k].sessionId}
    IN  IF js = {} THEN 0 ELSE CHOOSE j \in js : \A i \in js : j <= i

\* C18: a CANDIDATE that arrived before any session existed for its session id
\* is delivered to the session which the following OFFER for that session id
\* creates: that session has had a HandleCandidate call for each such candidate.
C18_EarlyCandidateDelivered ==
    \A j \in 1..Len(ctl.sessions) :
        Len(ctl.sessions[j].p.arrivals)
           >= Cardinality({k \in EarlyCandidates(ctl) : SessionFor(ctl, k) = j})

\* A CANDIDATE arrived for a session id without session, the OFFER for that
\* session id then created the session, and the session never saw the candidate.
C18_Witness ==
    \E k \in EarlyCandidates(ctl) :
        /\ SessionFor(ctl, k) # 0
        /\ ~ctl.sessions[SessionFor(ctl, k)].p.isCaller
        /\ ~ctl.sessions[SessionFor(ctl, k)].destroyed
        /\ ctl.sessions[SessionFor(ctl, k)].p.arrivals = <<>>
        /\ ctl.sessions[SessionFor(ctl, k)].p.pendingCandidates = <<>>
        /\ ctl.cands[k].to = 0

\* --------------------------------------------- session map (SpecManager)

InitManager ==
    /\ IdleSignaling
    /\ IdleCodec
    /\ IdleXfer
    /\ IdlePeer
    /\ ctl = NewController
    /\ mgr = NewManager
    /\ pair = 0

Managed(m, what) ==
    /\ mgr.msgs < MaxEvents
    /\ mgr' = [m EXCEPT !.msgs = @ + 1, !.last = what]
    /\ UNCHANGED <<sig, codecVars, xferVars, peer, ctl, pair>>

\* The application starts a session, with a fresh or a given session id.
MgrStartSession ==
    \E r \in Remotes, sid \in {0} \cup ManagerSessionIds :
        /\ IF sid <= MaxRemoteSessions THEN TRUE ELSE mgr.peersBySessionId[sid] # 0
        /\ Managed(startSession(mgr, r, sid), <<"startSession", r, sid>>)

MgrOffer ==
    \E r \in Remotes, sid \in 1..MaxRemoteSessions : Managed(_handleOffer(mgr, r, sid), <<"OFFER", r, sid>>)

MgrAnswer ==
    \E sid \in ManagerSessionIds :
        /\ sid <= MaxRemoteSessions \/ mgr.peersBySessionId[sid] # 0
        /\ Managed(_handleAnswer(mgr, sid), <<"ANSWER", sid>>)

MgrCandidate ==
    \E r \in Remotes, kind \in {"cand", "null"} : \E sid \in ManagerSessionIds :
        /\ sid <= MaxRemoteSessions \/ mgr.peersBySessionId[sid] # 0
        /\ Managed(_handleCandidate(mgr, r, sid, kind), <<"CANDIDATE", r, sid, kind>>)

MgrLeft == \E r \in Remotes : Managed(removePeerByPeerId(mgr, r), <<"LEFT", r>>)

MgrSettle ==
    \E i \in 1..Len(mgr.sessions), ok \in BOOLEAN :
        /\ mgr.sessions[i].p.ops # <<>>
        /\ ok => MayResolve(mgr.sessions[i].p, Head(mgr.sessions[i].p.ops))
        /\ Managed(mgrSettle(mgr, i, ok), <<"settle", i>>)

\* The application tears the manager down.
MgrDestroy == Managed(destroyManager(mgr), <<"destroy">>)

NextManager ==
    \/ MgrStartSession \/ MgrOffer \/ MgrAnswer \/ MgrCandidate \/ MgrLeft
    \/ MgrSettle \/ MgrDestroy

SpecManager == InitManager /\ [][NextManager]_vars

\* C13: the PeerManager has at most one non-destroyed session per remote id.
C13_OneSessionPerRemote ==
    \A r \in Remotes : Cardinality(Live(mgr, r)) <= 1

\* Two sessions of one remote id are registered and neither is destroyed: one
\* started here, the other created by the remote's OFFER.
C13_Witness ==
    \E r \in Remotes :
        /\ Len(mgr.sessions) = 2
        /\ \A i \in 1..2 : mgr.sessions[i].peerId = r /\ ~mgr.sessions[i].destroyed
        /\ mgr.sessions[1].p.isCaller /\ ~mgr.sessions[2].p.isCaller
        /\ mgr.events = << <<"register", 1>>, <<"register", 2>> >>

\* The sessions of remote id r, whatever their state.
SessionsOf(m, r) == {i \in 1..Len(m.sessions) : m.sessions[i].peerId = r}

\* The session ids under which a session of remote id r is registered.
RegisteredOf(m, r) ==
    {sid \in ManagerSessionIds :
        m.peersBySessionId[sid] # 0 /\ m.sessions[m.peersBySessionId[sid]].peerId = r}

\* C16: when the PeerManager handles LEFT for a remote id, every registered
\* session of that remote id is destroyed and removed from the session map and
\* the candidate-buffer map has no entry for its session id; the sessions,
\* session-map entries and buffers of the other remote ids are left as they
\* were. Afterwards no session of that remote id is registered or alive.
C16_LeftRemovesAllSessions ==
    /\ [](\A r \in Remotes :
            mgr.last = <<"LEFT", r>>
            => /\ RegisteredOf(mgr, r) = {}
               /\ \A i \in SessionsOf(mgr, r) : mgr.sessions[i].destroyed)
    /\ [][\A r \in Remotes :
            (mgr'.last = <<"LEFT", r>> /\ mgr'.msgs = mgr.msgs + 1)
            => /\ \A sid \in RegisteredOf(mgr, r) :
                     /\ mgr'.sessions[mgr.peersBySessionId[sid]].destroyed
                     /\ ~mgr'.sessions[mgr.peersBySessionId[sid]].p.pcOpen
                     /\ mgr'.peersBySessionId[sid] = 0
                     /\ mgr'.pendingCandidatesBySessionId[sid] = <<>>
               /\ Len(mgr'.sessions) = Len(mgr.sessions)
               /\ \A i \in 1..Len(mgr.sessions) :
                     mgr.sessions[i].peerId # r => mgr'.sessions[i] = mgr.sessions[i]
               /\ \A sid \in ManagerSessionIds \ RegisteredOf(mgr, r) :
                     /\ mgr'.peersBySessionId[sid] = mgr.peersBySessionId[sid]
                     /\ mgr'.pendingCandidatesBySessionId[sid]
                           = mgr.pendingCandidatesBySessionId[sid]]_vars

\* C16 witness: LEFT was handled for a remote id with two registered sessions,
\* a stale and a current one, and both are destroyed.
C16_Witness ==
    \E r \in Remotes :
        /\ mgr.last = <<"LEFT", r>>
        /\ Cardinality(SessionsOf(mgr, r)) = 2
        /\ mgr.events = << <<"register", 1>>, <<"register", 2>>,
                           <<"destroy", 1>>, <<"destroy", 2>> >>

\* The buffered candidates that were received from remote id r.
BufferedFrom(m, r) ==
    {<<sid, k>> \in ManagerSessionIds \X (1..MaxEvents + 1) :
        /\ k <= Len(m.pendingCandidatesBySessionId[sid])
        /\ m.pendingCandidatesBySessionId[sid][k].peerId = r}

\* C17: when the PeerManager has handled LEFT for a remote id, its candidate
\* buffer holds no candidate received from that remote id.
C17_LeftEvictsCandidates ==
    \A r \in Remotes : mgr.last = <<"LEFT", r>> => BufferedFrom(mgr, r) = {}

\* LEFT was handled for a remote id whose candidate, buffered under a session
\* id that never had a session, is still in the buffer.
C17_Witness ==
    \E r \in Remotes : \E sid \in ManagerSessionIds :
        /\ mgr.last = <<"LEFT", r>>
        /\ mgr.sessions = <<>>
        /\ Len(mgr.pendingCandidatesBySessionId[sid]) = 1
        /\ mgr.pendingCandidatesBySessionId[sid][1].peerId = r

\* ------------------------------------------------ initiator rule (SpecPair)

Sides == {"A", "B"}

\* Two clients with distinct relay-assigned ids running the same rule; neither
\* has learnt of the other yet.
InitPair ==
    /\ IdleSignaling
    /\ IdleCodec
    /\ IdleXfer
    /\ IdlePeer
    /\ ctl = NewController
    /\ mgr = NewManager
    /\ \E a \in RelayIds, rule \in {"connectPeer", "shouldInitiate"} :
       \E b \in RelayIds \ {a} :
          pair = [id |-> [x \in Sides |-> IF x = "A" THEN a ELSE b],
                  rule |-> rule,
                  knows |-> [x \in Sides |-> FALSE],
                  caller |-> [x \in Sides |-> FALSE],
                  offers |-> <<>>]

\* Side x learns of the other side (HELLO or JOIN) and applies the rule: if it
\* is to initiate it creates a caller session, which sends the OFFER.
PairLearns(x) ==
    /\ ~pair.knows[x]
    /\ LET init == Initiates(pair.rule, pair.id[x], pair.id[Other(x)])
       IN  pair' = [pair EXCEPT !.knows[x] = TRUE,
                                !.caller[x] = init,
                                !.offers = IF init THEN Append(@, x) ELSE @]
    /\ UNCHANGED <<sig, codecVars, xferVars, peer, ctl, mgr>>

NextPair == \E x \in Sides : PairLearns(x)

SpecPair == InitPair /\ [][NextPair]_vars

ManagerFlushesBuffer ==
    \A k \in 1..Len(mgr.offers) :
        (mgr.offers[k].at = "done" /\ ~mgr.sessions[mgr.offers[k].session].destroyed)
        => mgr.pendingCandidatesBySessionId[mgr.offers[k].sessionId] = <<>>

\* ------------------------------------------------------ ICE restart (SpecIce)

\* The transport reports a change of its ICE connection state; it has one to
\* report once it holds a local and a remote description.
PeerIceChange ==
    /\ peer.pcOpen /\ peer.localDescription /\ peer.remoteDescription
    /\ peer.iceChanges < MaxIceChanges
    /\ \E iceState \in IceNext(peer.iceConnectionState) :
          peer' = oniceconnectionstatechange(peer, iceState)
    /\ UNCHANGED <<sig, codecVars, xferVars, registryVars>>

NextIce == PeerOffer \/ PeerAnswer \/ PeerSettle \/ PeerIceChange

SpecIce == InitPeer /\ [][NextIce]_vars

\* C19: over the lifetime of a session at most one ICE restart is issued.
C19_AtMostOneRestart == Len(peer.restarts) <= 1

\* A second ICE restart was issued: ICE failed, was restarted (the restart offer
\* went out and was answered), connected, and failed again.
C19_Witness ==
    /\ Len(peer.restarts) = 2
    /\ peer.iceConnectionState = "failed"
    /\ peer.iceRestartAttempts = 1
    /\ peer.sent = <<"OFFER", "OFFER">>
    /\ peer.negotiations = 2

\* C20: every ICE restart was issued by a caller, with the transport's signaling
\* state stable, in the handling of a change of the ICE state to failed; no
\* other step issues one, and a callee never does.
C20_RestartOnlyCallerStableFailed ==
    /\ [](\A k \in 1..Len(peer.restarts) :
            /\ peer.restarts[k].isCaller
            /\ peer.restarts[k].signalingState = "stable"
            /\ peer.restarts[k].iceState = "failed")
    /\ [](~peer.isCaller => peer.restarts = <<>>)
    /\ [][peer'.restarts # peer.restarts
          => /\ peer'.iceChanges = peer.iceChanges + 1
             /\ peer'.iceConnectionState = "failed"
             /\ peer.isCaller /\ peer.pcOpen
             /\ peer.signalingState = "stable"
             /\ Len(peer'.restarts) = Len(peer.restarts) + 1]_vars

\* C20 witness: a caller issued a restart and its restart offer went out, after
\* an earlier failure in mid-negotiation had issued none.
C20_Witness ==
    /\ peer.isCaller
    /\ Len(peer.restarts) = 1
    /\ Len(peer.sent) >= 2 /\ peer.sent[Len(peer.sent)] = "OFFER"
    /\ peer.iceChanges >= 3

\* ------------------------------------------------ Peer teardown (SpecTeardown)

\* A Peer on either kind of platform, as a caller or as a callee.
InitTeardown ==
    /\ IdleSignaling
    /\ IdleCodec
    /\ IdleXfer
    /\ IdleRegistry
    /\ \E isCaller \in BOOLEAN, late \in BOOLEAN :
          LET p == [NewPeer(isCaller) EXCEPT !.settlesAfterClose = late]
          IN  peer = IF isCaller THEN createPeerConnection(p) ELSE p

\* The owner of a Peer drops it from its maps before it destroys it: a destroyed
\* Peer gets no further message of the relay.
Alive == peer.destroyedAt < 0

\* Messages of the relay and changes of the ICE state handled so far.
TeardownCalls == peer.negotiations + Len(peer.arrivals) + peer.iceChanges

Callable == Alive /\ TeardownCalls < MaxTeardownCalls

TeardownOffer == Callable /\ PeerOffer

TeardownAnswer == Callable /\ PeerAnswer

TeardownCandidate == Callable /\ PeerCandidate

TeardownIceChange == Callable /\ PeerIceChange

\* destroy() is called, in whatever state the Peer is.
PeerDestroy ==
    /\ peer' = destroy(peer)
    /\ UNCHANGED <<sig, codecVars, xferVars, registryVars>>

NextTeardown ==
    \/ TeardownOffer \/ TeardownAnswer \/ TeardownCandidate \/ TeardownIceChange
    \/ PeerSettle \/ PeerDestroy

SpecTeardown == InitTeardown /\ [][NextTeardown]_vars

\* The fields that destroy() clears are still clear.
TeardownCleared ==
    /\ ~peer.pcOpen
    /\ peer.pendingCandidates = <<>>
    /\ ~peer.pendingEndOfCandidates
    /\ peer.iceRestartAttempts = 0

\* Once destroyed, the fields that destroy() cleared stay cleared whatever
\* settles afterwards.
TeardownStaysCleared == ~Alive => TeardownCleared

\* C21: once destroy() has been called, whatever suspended operation settles
\* afterwards, no further OFFER or ANSWER is sent for the session and the fields
\* that destroy() cleared stay cleared.
C21_InertAfterDestroy ==
    ~Alive => (Len(peer.sent) = peer.destroyedAt /\ TeardownCleared)

\* An operation that was suspended at the time of destroy() has settled since.
C21_Witness ==
    /\ ~Alive
    /\ peer.settlesAfterClose
    /\ peer.ops = <<>>
    /\ \E t \in 1..Len(peer.tasks) : peer.tasks[t].kind = "HandlerOffer"
    /\ \A t \in 1..Len(peer.tasks) : peer.tasks[t].at = "done"
    /\ peer.applied # <<>>

\* ------------------------------------ SignalingConnection (SpecSignaling)

\* The state after the constructor: the first socket is connecting.
InitSignaling ==
    /\ IdleCodec
    /\ IdleXfer
    /\ IdlePeer
    /\ IdleRegistry
    /\ \E info \in BOOLEAN, iceMode \in IceModes : sig = NewSignaling(info, iceMode)

Signaled(s) ==
    /\ sig' = s
    /\ UNCHANGED <<chunker, digester, emitted, boundaries, call, overlapThrown, lastOp,
                   ft, chan, opts, plan, peer, ctl, mgr, pair>>

SocketIds == 1..Len(sig.sockets)

UserSends == {i \in 1..Len(sig.sends) : sig.sends[i].msg.type # "UPDATE"}

\* The callbacks invoked and the messages the owner passed to send() so far; the
\* relay and the owner stop once there are MaxSigEvents of them.
SigEvents == Len(sig.calls) + Cardinality(UserSends)

TimerIds == 1..Len(sig.timers)

\* A connecting socket opens: readyState becomes OPEN and the open event fires.
SigSocketOpen ==
    \E k \in SocketIds :
        /\ sig.sockets[k].readyState = "CONNECTING"
        /\ LET s1 == [sig EXCEPT !.sockets[k].readyState = "OPEN"]
           IN  Signaled(IF sig.sockets[k].attached THEN onopen(s1, k) ELSE s1)

\* The relay starts the closing handshake of an open socket.
SigSocketClosing ==
    \E k \in SocketIds :
        /\ sig.sockets[k].readyState = "OPEN"
        /\ SigEvents < MaxSigEvents
        /\ Signaled([sig EXCEPT !.sockets[k].readyState = "CLOSING"])

\* What the relay may send: text that is no JSON, a HELLO without iceServers,
\* with an empty list or with a list of servers, or another message.
Payloads ==
    {[present |-> FALSE, list |-> <<>>]}
        \cup {[present |-> TRUE, list |-> l] : l \in {<<>>, <<"turn:a">>}}

Datas ==
    {[type |-> "garbage"], [type |-> "JOIN"]}
        \cup {[type |-> "HELLO", iceServers |-> l] : l \in Payloads}

\* A message event of a socket that is open or closing.
SigSocketMessage ==
    \E k \in SocketIds, data \in Datas :
        /\ sig.sockets[k].readyState \in {"OPEN", "CLOSING"}
        /\ sig.sockets[k].attached
        /\ SigEvents < MaxSigEvents
        /\ Signaled(onmessage(sig, k, data))

\* A socket closes, after a failure (error event, then close event) or cleanly.
\* The relay closes no further socket once MaxSockets sockets have been made.
SigSocketClose ==
    \E k \in SocketIds, failed \in BOOLEAN :
        /\ sig.sockets[k].readyState # "CLOSED"
        /\ sig.sockets[k].attached
             => (Len(sig.sockets) < MaxSockets /\ SigEvents < MaxSigEvents)
        /\ LET s1 == [sig EXCEPT !.sockets[k].readyState = "CLOSED"]
               s2 == IF failed THEN onerror(s1, k) ELSE s1
           IN  Signaled(IF sig.sockets[k].attached THEN _handleClose(s2, k) ELSE s1)

\* Time passes: 2.5 seconds of the delay of the pending timer.
SigTick ==
    /\ \E t \in TimerIds : /\ sig.timers[t].state = "pending"
                            /\ sig.timers[t].elapsed < RECONNECT_DELAY_MS
    /\ Signaled([sig EXCEPT !.timers =
                    [t \in TimerIds |->
                        IF sig.timers[t].state = "pending"
                        THEN [sig.timers[t] EXCEPT
                                !.elapsed = Min(@ + 2500, RECONNECT_DELAY_MS)]
                        ELSE sig.timers[t]]])

\* setTimeout runs its callback, never before its delay has passed.
SigTimerFires ==
    \E t \in TimerIds :
        /\ sig.timers[t].state = "pending"
        /\ sig.timers[t].elapsed >= RECONNECT_DELAY_MS
        /\ Signaled(_connect([sig EXCEPT !.timers[t].state = "fired"], t))

\* The owner calls send(msg); id numbers the message.
SigSend ==
    /\ SigEvents < MaxSigEvents
    /\ \E type \in {"OFFER", "CANDIDATE"} :
          Signaled(send(sig, [type |-> type, id |-> Len(sig.sends) + 1]))

\* The owner calls destroy().
SigDestroy ==
    /\ ~sig._isDestroyed
    /\ Signaled(sigDestroy(sig))

NextSignaling ==
    \/ SigSocketOpen \/ SigSocketClosing \/ SigSocketMessage \/ SigSocketClose
    \/ SigTick \/ SigTimerFires \/ SigSend \/ SigDestroy

SpecSignaling == InitSignaling /\ [][NextSignaling]_vars

\* The event loop runs a timer whose delay has passed, and time passes.
SpecSignalingLive ==
    /\ InitSignaling
    /\ [][NextSignaling]_vars
    /\ WF_vars(SigTick)
    /\ WF_vars(SigTimerFires)

Pending(t) == t \in TimerIds /\ sig.timers[t].state = "pending"

SocketsBy(t) == {k \in SocketIds : sig.sockets[k].by = t}

\* At most one reconnect timer is pending.
OneTimerPending == Cardinality({t \in TimerIds : Pending(t)}) <= 1

\* At most one socket is open or connecting.
OneSocketLive ==
    Cardinality({k \in SocketIds :
                    sig.sockets[k].readyState \in {"CONNECTING", "OPEN"}}) <= 1

\* Every socket but the first was made by a timer whose whole delay had passed,
\* and that timer had been armed by the close of an earlier socket.
NoEarlyReconnect ==
    \A k \in SocketIds :
        IF k = 1 THEN sig.sockets[k].by = 0
        ELSE /\ sig.sockets[k].by \in TimerIds
             /\ sig.sockets[k].waited >= RECONNECT_DELAY_MS
             /\ sig.timers[sig.sockets[k].by].close < k

\* Every close reported to the owner armed one timer, and every timer made one
\* socket if it fired and none if it did not; a timer is cleared by destroy() only.
OneAttemptPerClose ==
    /\ \A c \in 1..Len(sig.calls) :
          sig.calls[c].cb = "onClose"
          => Cardinality({t \in TimerIds : sig.timers[t].close = sig.calls[c].socket}) = 1
    /\ \A t \in TimerIds :
          /\ Cardinality(SocketsBy(t)) = IF sig.timers[t].state = "fired" THEN 1 ELSE 0
          /\ sig.timers[t].state = "cleared" => sig._isDestroyed

\* C22: after an unexpected close of the socket of a connection that is not
\* destroyed, no reconnect happens before the 5 seconds have passed and exactly
\* one happens for that close (the timer it armed does not stay pending: it
\* makes one socket, unless the connection is destroyed first); never is more
\* than one timer pending or more than one socket open or connecting.
C22_OneDelayedReconnect ==
    /\ [](OneTimerPending /\ OneSocketLive /\ NoEarlyReconnect /\ OneAttemptPerClose)
    /\ (\E t \in TimerIds : Pending(t))
          ~> (\A t \in TimerIds : SocketsBy(t) # {} \/ sig._isDestroyed)

\* C22 witness: the second unexpected close has been followed, five seconds
\* later, by the second reconnect.
C22_Witness ==
    /\ ~sig._isDestroyed
    /\ Len(sig.sockets) = 3
    /\ sig.sockets[3].by = 2
    /\ sig.sockets[3].waited = RECONNECT_DELAY_MS
    /\ sig.sockets[3].readyState = "OPEN"

\* C23: with identity info configured, the UPDATE is the first message written
\* to every socket, the first one and every reconnect: it is written before
\* onOpen is invoked for the socket and before any OFFER, ANSWER or CANDIDATE.
C23_UpdateFirst ==
    sig.info =>
        /\ \A k \in SocketIds :
              /\ sig.sockets[k].out # <<>> => sig.sockets[k].out[1] = UpdateMsg
              /\ sig.sockets[k].readyState = "OPEN" => sig.sockets[k].out # <<>>
        /\ \A c \in 1..Len(sig.calls) :
              sig.calls[c].cb = "onOpen"
              => /\ sig.calls[c].sent >= 1
                 /\ sig.sockets[sig.calls[c].socket].out[1] = UpdateMsg

\* C23 witness: a reconnected socket carries the UPDATE and then a message of
\* the owner, and onOpen has been invoked for it.
C23_Witness ==
    /\ sig.info
    /\ Len(sig.sockets) >= 2
    /\ Len(sig.sockets[2].out) = 2
    /\ sig.sockets[2].out[1] = UpdateMsg
    /\ sig.sockets[2].out[2].type = "OFFER"
    /\ \E c \in 1..Len(sig.calls) :
          sig.calls[c].cb = "onOpen" /\ sig.calls[c].socket = 2

\* C24: once destroy() has been called no socket is made, no reconnect timer is
\* pending and no callback is invoked, whatever the sockets and timers do.
C24_DestroyIsTerminal ==
    sig._isDestroyed =>
        /\ Len(sig.sockets) = sig.socketsAtDestroy
        /\ Len(sig.calls) = sig.callsAtDestroy
        /\ \A t \in TimerIds : ~Pending(t)
        /\ sig.socket = 0

\* C24 witness: destroy() was called while a reconnect timer was pending (the
\* second socket had closed); the timer is cleared and no third socket exists.
C24_Witness ==
    /\ sig._isDestroyed
    /\ \E t \in TimerIds : sig.timers[t].state = "cleared"
    /\ \A k \in SocketIds : sig.sockets[k].readyState = "CLOSED"
    /\ Len(sig.sockets) = 2

\* C25: send() returns true exactly when it found an open socket; a message it
\* accepted was written once, to the socket then open, and a message it refused
\* is on no socket, then or after a reconnect.
C25_SendNeverQueues ==
    \A i \in UserSends :
        LET e == sig.sends[i]
            on == {k \in SocketIds :
                      \E j \in 1..Len(sig.sockets[k].out) : sig.sockets[k].out[j] = e.msg}
        IN  /\ e.result = (e.at = "OPEN")
            /\ Cardinality(on) = IF e.result THEN 1 ELSE 0

\* C25 witness: a message was refused while the connection waited to reconnect,
\* another while the new socket was connecting; the socket has opened since.
C25_Witness ==
    /\ \E i \in UserSends : sig.sends[i].at = "none" /\ ~sig.sends[i].result
    /\ \E i \in UserSends : sig.sends[i].at = "CONNECTING" /\ ~sig.sends[i].result
    /\ Len(sig.sockets) = 2
    /\ sig.sockets[2].readyState = "OPEN"

\* The list of the last HELLO that carried one, empty if none did.
RECURSIVE LastSupplied(_)
LastSupplied(hellos) ==
    IF hellos = <<>> THEN <<>>
    ELSE IF hellos[Len(hellos)].present THEN hellos[Len(hellos)].list
    ELSE LastSupplied(SubSeq(hellos, 1, Len(hellos) - 1))

\* C27: getIceServers() returns no server in mode none, the public STUN server
\* alone in mode stun whatever the HELLOs carried, and in mode server the list
\* the relay supplied if it is not empty and the public STUN server otherwise.
C27_IceServersByMode ==
    getIceServers(sig) =
        CASE sig._iceMode = "none" -> <<>>
          [] sig._iceMode = "stun" -> <<defaultStunServer>>
          [] sig._iceMode = "server" ->
                IF LastSupplied(sig.hellos) # <<>> THEN LastSupplied(sig.hellos)
                ELSE <<defaultStunServer>>

\* C27 witness: in mode server the relay supplied a list and, in a later HELLO,
\* an empty one.
C27_Witness ==
    /\ sig._iceMode = "server"
    /\ Len(sig.hellos) = 2
    /\ sig.hellos[1] = [present |-> TRUE, list |-> <<"turn:a">>]
    /\ sig.hellos[2] = [present |-> TRUE, list |-> <<>>]
    /\ getIceServers(sig) = <<defaultStunServer>>

\* ------------------------------------------- PeerManager.startSession (C26)

\* C26: a startSession(remoteId, sessionId) call that finds a session registered
\* under sessionId returns that session and changes nothing else: no session or
\* transport is made, nothing is queued for sending, onPeerCreated is not
\* invoked and the session, its role included, is as it was.
C26_StartSessionIdempotent ==
    [][(/\ mgr'.msgs = mgr.msgs + 1
        /\ mgr'.last[1] = "startSession"
        /\ mgr'.last[3] # 0
        /\ mgr.peersBySessionId[mgr'.last[3]] # 0)
       => mgr' = [mgr EXCEPT !.msgs = @ + 1,
                             !.last = mgr'.last,
                             !.returned = mgr.peersBySessionId[mgr'.last[3]]]]_vars

\* C26 witness: startSession() was called with the session id of a session that
\* an OFFER had made, a callee; it returned that session.
C26_Witness ==
    /\ Len(mgr.last) = 3
    /\ mgr.last[1] = "startSession"
    /\ mgr.last[3] = 1
    /\ Len(mgr.sessions) = 1
    /\ ~mgr.sessions[1].p.isCaller
    /\ mgr.returned = 1
    /\ mgr.msgs = 2

\* ------------------------------ candidate order in PeerManager (SpecOrder)

\* One remote and one session id, followed through a whole negotiation.
Ordered(m, what) ==
    /\ mgr.msgs < MaxOrderEvents
    /\ mgr' = [m EXCEPT !.msgs = @ + 1, !.last = what]
    /\ UNCHANGED <<sig, codecVars, xferVars, peer, ctl, pair>>

OrderCandidate ==
    Ordered(_handleCandidate(mgr, <<1>>, 1, "cand"), <<"CANDIDATE", <<1>>, 1, "cand">>)

OrderOffer == Ordered(_handleOffer(mgr, <<1>>, 1), <<"OFFER", <<1>>, 1>>)

OrderSettle ==
    \E i \in 1..Len(mgr.sessions), ok \in BOOLEAN :
        /\ mgr.sessions[i].p.ops # <<>>
        /\ ok => MayResolve(mgr.sessions[i].p, Head(mgr.sessions[i].p.ops))
        /\ Ordered(mgrSettle(mgr, i, ok), <<"settle", i>>)

NextOrder == OrderCandidate \/ OrderOffer \/ OrderSettle

SpecOrder == InitManager /\ [][NextOrder]_vars

\* The candidates handed to session i, in the order of the HandleCandidate calls.
HandedTo(m, i) ==
    LET To(c) == c.to = i
    IN  SelectSeq(m.cands, To)

\* The place in the relay's delivery of the a-th candidate given to the transport
\* of session i.
TransportSeq(m, i, a) == HandedTo(m, i)[m.sessions[i].p.applied[a].n].seq

\* The candidates of session i reached its transport in relay-delivery order.
TransportInRelayOrder(m, i) ==
    \A a, b \in 1..Len(m.sessions[i].p.applied) :
        a < b => TransportSeq(m, i, a) < TransportSeq(m, i, b)

\* C28: the candidates of a session id reach the transport of its session in
\* the order the relay delivered them, those buffered before the session
\* existed ahead of those delivered after the OFFER, and once the OFFER has been
\* handled the buffer of the session id is empty.
C28_CandidatesInRelayOrder ==
    /\ \A i \in 1..Len(mgr.sessions) : TransportInRelayOrder(mgr, i)
    /\ \A k \in 1..Len(mgr.offers) :
          mgr.offers[k].at = "done"
          => mgr.pendingCandidatesBySessionId[mgr.offers[k].sessionId] = <<>>

\* C28 witness: the first message was a candidate, buffered; the second the
\* OFFER; the third a candidate, delivered while setRemoteDescription was
\* pending. The negotiation succeeded, the ANSWER went out, and both candidates
\* have been given to the transport, the third message first.
C28_Witness ==
    /\ Len(mgr.sessions) = 1
    /\ Len(mgr.sessions[1].p.applied) = 2
    /\ mgr.sessions[1].p.sent = <<"ANSWER">>
    /\ Len(mgr.offers) = 1
    /\ TransportSeq(mgr, 1, 1) = 3
    /\ TransportSeq(mgr, 1, 2) = 1

\* ------------------------------------------------ partition size (C29)

\* The bytes emitted by the nextPartition() call in flight, or by the last one.
PartitionBytes == chunker.offset - call.start

\* C29 as stated: the bytes emitted by one nextPartition() call never exceed the
\* partition cap, whatever the chunk size and the cap.
C29_NeverExceedsCap == PartitionBytes <= chunker.maxPartitionSize

\* C29 amended: the bytes emitted by one nextPartition() call stay below the
\* partition cap plus one chunk: the call stops at the first chunk with which
\* they reach the cap, so they exceed the cap by less than that chunk, and not
\* at all when the chunk size divides the cap.
C29_BelowCapPlusChunk ==
    /\ PartitionBytes < chunker.maxPartitionSize + chunker.chunkSize
    /\ PartitionBytes > chunker.maxPartitionSize
          => /\ call.done
             /\ PartitionBytes - call.lastLen < chunker.maxPartitionSize
    /\ chunker.maxPartitionSize % chunker.chunkSize = 0
          => PartitionBytes <= chunker.maxPartitionSize

\* C29 witness: a call emitted two chunks, the second of which took its bytes
\* over the cap.
C29_Witness ==
    /\ call.done /\ call.chunks = 2
    /\ PartitionBytes > chunker.maxPartitionSize

\* ------------------------------------- end-of-candidates in PeerManager (C30)

\* The last message handled was a CANDIDATE with a null candidate for a session
\* id under which a session is registered.
NullCandidateForSession ==
    /\ Len(mgr.last) = 4
    /\ mgr.last[1] = "CANDIDATE"
    /\ mgr.last[4] = "null"
    /\ mgr.peersBySessionId[mgr.last[3]] # 0

\* C30: a CANDIDATE message with a null candidate for the session id of a
\* registered session is passed to HandleCandidate of that session, which gives
\* the end-of-candidates marker to the transport or, before the remote
\* description is set, keeps it pending.
C30_EndOfCandidatesRouted ==
    NullCandidateForSession =>
        LET p == mgr.sessions[mgr.peersBySessionId[mgr.last[3]]].p
        IN  /\ p.arrivals # <<>>
            /\ p.arrivals[Len(p.arrivals)].kind = "null"
            /\ \/ p.pendingEndOfCandidates
               \/ \E a \in 1..Len(p.applied) : p.applied[a].kind = "eoc"

\* C30 witness: the OFFER of a session was handled, its remote description is
\* set, and the relay has delivered the null candidate of that session.
C30_Witness ==
    /\ NullCandidateForSession
    /\ mgr.sessions[mgr.peersBySessionId[mgr.last[3]]].p.remoteDescription
    /\ ~mgr.sessions[mgr.peersBySessionId[mgr.last[3]]].p.isCaller

\* ------------------------------------------- SpecReceive: a receiving engine
\*
\* Engine A behind an open data channel whose remote end sends any sequence
\* of headers and binary chunks, protocol or not. chan["B"] collects, in
\* order, everything engine A sends; plan.left counts the frames still to come.

MaxFrames == 5

RemoteFrames ==
    {Msg("header", size, 0) : size \in 0..MaxXferFileSize}
    \cup {Msg("chunk", 0, len) : len \in 1..MaxChunkLen}

InitReceive ==
    /\ IdleSignaling
    /\ IdleCodec
    /\ IdleRegistry
    /\ peer = [NewPeer(FALSE) EXCEPT !.dcOpen = TRUE]
    /\ ft = [e \in Engines |-> NewFileTransfer]
    /\ chan = [e \in Engines |-> <<>>]
    /\ opts = [chunkSize |-> DEFAULT_CHUNK_SIZE_BYTES,
               maxPartitionSize |-> DEFAULT_MAX_PARTITION_SIZE_BYTES]
    /\ plan = [left |-> MaxFrames, sizes |-> {}, ends |-> {}]

\* dc.onmessage of engine A for a frame of the remote end.
ReceiveFrame ==
    /\ plan.left > 0
    /\ \E m \in RemoteFrames : Deliver("A", handleIncomingMessage(ft["A"], m), <<>>)
    /\ plan' = [plan EXCEPT !.left = @ - 1]
    /\ UNCHANGED <<sig, opts, codecVars, peer, registryVars>>

NextReceive == ReceiveFrame

SpecReceive == InitReceive /\ [][NextReceive]_vars

Sent(e, t) == Cardinality({i \in 1..Len(chan[Other(e)]) : chan[Other(e)][i].type = t})

DeliveredHeaders(f) == {f.deliveredOf[i] : i \in 1..Len(f.deliveredOf)}

\* C31: a digester that was pending when the next header arrived has been
\* rejected exactly once and never resolved, no file-received callback and no
\* transfer-complete answers its header (each transfer-complete sent follows a
\* callback for a header that completed), and the current digester is the one
\* a fresh digester becomes from the chunks that arrived after its own header.
C31_SupersededDigestAborted ==
    LET f == ft["A"]
    IN  /\ \A i \in 1..Len(f.replaced) :
              f.replaced[i].pending =>
                 /\ f.replaced[i].digester.settled
                 /\ f.replaced[i].digester.rejects = 1
                 /\ f.replaced[i].digester.resolves = 0
                 /\ f.replaced[i].header \notin DeliveredHeaders(f)
        /\ Sent("A", "transfer-complete") = Len(f.deliveredOf)
        /\ Len(f.log) = 2 * Len(f.deliveredOf)
        /\ f.digester # Null =>
              f.digester = unchunkAll(FileDigester(f.digester.size), f.since)

\* C31 witness: the first file had received a byte when the second header
\* arrived, and the second file was then received in full.
C31_Witness ==
    LET f == ft["A"]
    IN  /\ Len(f.replaced) = 1
        /\ f.replaced[1].pending
        /\ f.replaced[1].digester.bytesReceived = 1
        /\ f.headers = 2
        /\ f.deliveredOf = <<2>>
        /\ f.digester.bytesReceived = 2

\* A step of engine A that handled a chunk for its current digester, and one
\* that handled a header.
ChunkStep == /\ ft'["A"].headers = ft["A"].headers
             /\ Len(ft'["A"].since) = Len(ft["A"].since) + 1

HeaderStep == ft'["A"].headers = ft["A"].headers + 1

Rejected(d) == d # Null /\ d.rejects = 1

\* C32: a chunk larger than the bytes its file still lacks rejects that file's
\* digester and nothing else: the data channel stays open, the chunk and every
\* later chunk for the file send nothing and deliver nothing, the rejected
\* digester no longer changes, no file-received callback ever answers its
\* header, and the next header installs a fresh digester.
C32_OversizedChunkAbortsOnlyItsReceive ==
    /\ [](LET f == ft["A"]
          IN  /\ peer.dcOpen
              /\ Rejected(f.digester) => f.headers \notin DeliveredHeaders(f)
              /\ \A i \in 1..Len(f.replaced) :
                    Rejected(f.replaced[i].digester) =>
                       f.replaced[i].header \notin DeliveredHeaders(f))
    /\ [][LET f == ft["A"]
              g == ft'["A"]
          IN  /\ (/\ ChunkStep
                  /\ ~f.digester.settled
                  /\ g.since[Len(g.since)].len > f.digester.size - f.digester.bytesReceived)
                 => Rejected(g.digester)
              /\ (ChunkStep /\ Rejected(g.digester)) =>
                    /\ chan'["B"] = chan["B"]
                    /\ g.log = f.log
                    /\ g.deliveredOf = f.deliveredOf
                    /\ g.digester.bytesReceived = f.digester.bytesReceived
                    /\ Rejected(f.digester) => g.digester = f.digester
              /\ (HeaderStep /\ Rejected(f.digester)) =>
                    /\ g.replaced[Len(g.replaced)].digester = f.digester
                    /\ \E size \in 0..MaxXferFileSize : g.digester = FileDigester(size)]_vars

\* C32 witness: the first file's first chunk was oversized and a second chunk
\* for it was ignored; the file announced by the next header then arrived.
C32_Witness ==
    LET f == ft["A"]
    IN  /\ f.headers = 2
        /\ Len(f.replaced) = 1
        /\ ~f.replaced[1].pending
        /\ Rejected(f.replaced[1].digester)
        /\ f.replaced[1].digester.bytesReceived = 0
        /\ f.deliveredOf = <<2>>
        /\ Len(f.since) = 1
        /\ plan.left = 0

\* ------------------------------------- SpecNoise: stray text frames in transit
\*
\* The two engines of Spec with one file to send, and a data channel on which
\* text frames that no engine emits also arrive: text that is not JSON, and
\* JSON whose type is none of the six the switch names. plan.noise counts the
\* stray frames handled.

MaxNoise == 2

NoiseFrames == {Msg("unparseable", 0, 0), Msg("unknown", 0, 0)}

InitNoise ==
    /\ IdleSignaling
    /\ IdleCodec
    /\ IdlePeer
    /\ IdleRegistry
    /\ ft = [e \in Engines |-> NewFileTransfer]
    /\ chan = [e \in Engines |-> <<>>]
    /\ \E cs \in 1..MaxXferChunk, mps \in 1..MaxXferCap :
          opts = [chunkSize |-> cs, maxPartitionSize |-> mps]
    /\ plan = [left |-> 1, sizes |-> 0..MaxXferFileSize, ends |-> Engines, noise |-> 0]

\* dc.onmessage of engine e for a stray text frame.
NoiseReceive(e) ==
    /\ plan.noise < MaxNoise
    /\ \E m \in NoiseFrames : Deliver(e, handleIncomingMessage(ft[e], m), chan[e])
    /\ plan' = [plan EXCEPT !.noise = @ + 1]
    /\ UNCHANGED <<sig, opts, codecVars, peer, registryVars>>

NextNoise ==
    \E e \in Engines :
        XferSendFiles(e) \/ XferReceive(e) \/ XferChunkRead(e) \/ NoiseReceive(e)

SpecNoise == InitNoise /\ [][NextNoise]_vars

\* Nothing is left to happen: no file to pass, no frame in flight, no read
\* pending.
Quiet ==
    /\ plan.left = 0
    /\ \A e \in Engines : chan[e] = <<>> /\ ~Reading(ft[e])

\* C33: handling a text frame that is not JSON or has an unknown type leaves
\* every field of both engines as it was (file queue, busy flag, chunker,
\* digester, last reported progress) and sends nothing; and with such frames
\* arriving at any moment, the file being sent is delivered whole and its
\* sender returns to idle once nothing is left in flight.
C33_StrayFramesDropped ==
    /\ [][plan'.noise # plan.noise => ft' = ft /\ chan' = chan]_vars
    /\ [](Quiet =>
            \A e \in Engines :
               /\ ~ft[e].busy /\ ft[e].filesQueue = <<>>
               /\ ft[Other(e)].received =
                     [i \in 1..Len(ft[e].sentSizes) |->
                         [size |-> ft[e].sentSizes[i], bytes |-> ft[e].sentSizes[i]]])

\* C33 witness: both kinds of stray frame were handled while a file of two
\* partitions was on its way, and the file arrived.
C33_Witness ==
    /\ plan.noise = 2
    /\ Quiet
    /\ \E e \in Engines :
          /\ ft[e].sentSizes = <<MaxXferFileSize>>
          /\ Len(ft[e].parts) >= 1
          /\ ft[Other(e)].received = <<[size |-> MaxXferFileSize, bytes |-> MaxXferFileSize]>>

\* ---------------------------------- SpecAbsorb: rejected negotiation promises
\*
\* A Peer that handles up to MaxTeardownCalls messages of the relay, with a
\* note of every rejection that reaches the catch of HandlerOffer or
\* HandleAnswer: the task that awaited the promise and the operation rejected.

AbsorbSettle ==
    /\ peer.ops # <<>>
    /\ \E ok \in BOOLEAN :
          /\ ok => MayResolve(peer, Head(peer.ops))
          /\ LET o == Head(peer.ops)
                 caught == ~ok /\ o.task > 0 /\ o.op # "addIceCandidate"
             IN  peer' = [settle(peer, ok) EXCEPT
                             !.failed = IF caught
                                        THEN Append(@, [task |-> o.task, op |-> o.op])
                                        ELSE @]
    /\ UNCHANGED <<sig, codecVars, xferVars, registryVars>>

NextAbsorb == TeardownOffer \/ TeardownAnswer \/ TeardownCandidate \/ AbsorbSettle

SpecAbsorb == InitPeer /\ [][NextAbsorb]_vars

FailedTasks == {peer.failed[i].task : i \in 1..Len(peer.failed)}

AnswersSent == Cardinality({i \in 1..Len(peer.sent) : peer.sent[i] = "ANSWER"})

\* The HandlerOffer calls that ran to their end without a rejection.
OffersCompleted ==
    {t \in 1..Len(peer.tasks) :
        /\ peer.tasks[t].kind = "HandlerOffer"
        /\ peer.tasks[t].at = "done"
        /\ t \notin FailedTasks}

\* C34: a rejection of setRemoteDescription, createAnswer or setLocalDescription
\* inside HandlerOffer or HandleAnswer ends that call and nothing else: the step
\* sends nothing, leaves the transport in place and the buffered candidates and
\* end-of-candidates marker as they were; the ANSWERs sent are exactly one per
\* HandlerOffer call that completed without a rejection, before or after failed
\* ones; and every later OFFER, and every later ANSWER on a session with a
\* transport, starts a new call awaiting setRemoteDescription.
C34_NegotiationFailureAbsorbed ==
    /\ [](/\ AnswersSent = Cardinality(OffersCompleted)
          /\ \A t \in FailedTasks : peer.tasks[t].at = "done"
          /\ peer.destroyedAt = -1)
    /\ [][/\ Len(peer'.failed) > Len(peer.failed) =>
                /\ peer'.sent = peer.sent
                /\ peer'.pcOpen /\ peer.pcOpen
                /\ peer'.pendingCandidates = peer.pendingCandidates
                /\ peer'.pendingEndOfCandidates = peer.pendingEndOfCandidates
                /\ peer'.remoteDescription = peer.remoteDescription
                /\ peer'.signalingState = peer.signalingState
          /\ (peer'.negotiations > peer.negotiations /\ peer'.pcOpen) =>
                /\ Len(peer'.tasks) = Len(peer.tasks) + 1
                /\ peer'.tasks[Len(peer'.tasks)].at = "setRemoteDescription"
                /\ Len(peer'.ops) = Len(peer.ops) + 1]_vars

\* C34 witness: the first OFFER failed at setRemoteDescription with a candidate
\* in the buffer; the second OFFER was then answered and the candidate applied.
C34_Witness ==
    /\ Len(peer.failed) = 1
    /\ peer.failed[1] = [task |-> 1, op |-> "setRemoteDescription"]
    /\ Len(peer.tasks) = 2
    /\ peer.tasks[2].kind = "HandlerOffer" /\ peer.tasks[2].at = "done"
    /\ peer.sent = <<"ANSWER">>
    /\ \E k \in 1..Len(peer.applied) : peer.applied[k].via = "flush"

\* ------------------------------ SpecOverlap: calls on a Chunker that is reading
\*
\* A driver that calls nextPartition() and repeatPartition() at any moment,
\* also while a read is pending. lastOp names the last call, whether a read was
\* pending when it was made, and whether it was rejected.

MaxEmitted == 5

InitOverlap ==
    /\ IdleSignaling
    /\ IdleXfer
    /\ IdlePeer
    /\ IdleRegistry
    /\ \E size \in 0..MaxFileSize, cs \in 1..MaxChunkSize, mps \in 1..MaxPartitionCap :
          chunker = FileChunker(size, cs, mps)
    /\ digester = FileDigester(0)
    /\ emitted = <<>>
    /\ boundaries = <<>>
    /\ call = NoCall
    /\ overlapThrown = FALSE
    /\ lastOp = [op |-> "none", reading |-> FALSE, threw |-> FALSE]

\* The call op of the driver with result r.
OverlapCall(op, r) ==
    /\ chunker' = r.chunker
    /\ emitted' = emitted \o r.chunks
    /\ boundaries' = boundaries \o r.notes
    /\ overlapThrown' = (overlapThrown \/ r.threw)
    /\ lastOp' = [op |-> op, reading |-> chunker.inProgress, threw |-> r.threw]
    /\ UNCHANGED <<sig, digester, call, xferVars, peer, registryVars>>

OverlapNextPartition == OverlapCall("nextPartition", nextPartition(chunker))

\* A repeat of the last partition emits its chunks again: the driver makes it
\* while fewer than MaxEmitted chunks have been emitted, or while a read is
\* pending.
OverlapRepeatPartition ==
    /\ chunker.inProgress \/ Len(emitted) < MaxEmitted
    /\ OverlapCall("repeatPartition", repeatPartition(chunker))

OverlapChunkRead ==
    /\ chunker.inProgress
    /\ OverlapCall("chunkRead", chunkRead(chunker))

NextOverlap == OverlapNextPartition \/ OverlapRepeatPartition \/ OverlapChunkRead

SpecOverlap == InitOverlap /\ [][NextOverlap]_vars

OverlappedCall == lastOp'.op \in {"nextPartition", "repeatPartition"} /\ lastOp'.reading

\* C35: a nextPartition() or repeatPartition() call made while a read is pending
\* is rejected and leaves the chunker (offset, partition size, pending read) and
\* the emitted chunks and boundaries as they were, so the pending call goes on as
\* if it had not been made; a call made while no read is pending is never
\* rejected, whatever was rejected before.
C35_OverlappingCallRejected ==
    [][/\ OverlappedCall =>
             /\ lastOp'.threw
             /\ chunker' = chunker
             /\ emitted' = emitted
             /\ boundaries' = boundaries
       /\ (lastOp'.op \in {"nextPartition", "repeatPartition"} /\ ~lastOp'.reading) =>
             ~lastOp'.threw]_vars

\* C35 witness: a call was rejected while a read was pending, the pending call
\* and its successors then emitted the whole file, and a later call was accepted.
C35_Witness ==
    /\ overlapThrown
    /\ lastOp = [op |-> "nextPartition", reading |-> FALSE, threw |-> FALSE]
    /\ chunker.size = MaxFileSize
    /\ isFileEnd(chunker)
    /\ ContiguousFrom(emitted, 0)
    /\ TotalLen(emitted) = chunker.size

\* --------------------------- SpecChannel: sending on a channel that is not open
\*
\* The FileTransfer of one Peer (engine A) and the Peer's data channel, which is
\* connecting at first, opens once and may close. chan["B"] collects what
\* reached the channel; no frame comes back.

\* Peer.sendData() throws: there is no data channel or it is not open.
sendDataThrows(p) == ~p.dcOpen

\* sendFiles(files) on the FileTransfer of Peer p. Where sendData() throws,
\* sendJSON(header) in sendFile() throws after dequeueFile() has shifted the
\* file and set busy: the promise of dequeueFile() is rejected and discarded.
sendFilesOn(p, f, files) ==
    IF ~sendDataThrows(p) THEN sendFiles(f, files)
    ELSE LET f1 == [f EXCEPT !.filesQueue = @ \o files]
         IN  IF f1.busy THEN [ft |-> f1, out |-> <<>>]
             ELSE IF f1.filesQueue = <<>>
             THEN [ft |-> [f1 EXCEPT !.busy = FALSE], out |-> <<>>]
             ELSE [ft |-> [f1 EXCEPT !.filesQueue = Tail(@), !.busy = TRUE],
                   out |-> <<>>]

\* The readChunk() awaited by nextPartition() settles. Where sendData() throws,
\* onChunk throws after the offset and the partition size were advanced, and
\* the finally block clears inProgress.
chunkReadOn(p, f) ==
    IF ~sendDataThrows(p)
    THEN LET r == chunkRead(f.chunker)
         IN  [ft |-> afterPartitionStep(f, r), out |-> emit(r)]
    ELSE LET chunk == readChunk(f.chunker)
         IN  [ft |-> [f EXCEPT !.chunker = [@ EXCEPT !.offset = @ + chunk.len,
                                                    !.partitionSize = @ + chunk.len,
                                                    !.inProgress = FALSE]],
              out |-> <<>>]

InitChannel ==
    /\ IdleSignaling
    /\ IdleCodec
    /\ IdleRegistry
    /\ peer = NewPeer(TRUE)
    /\ ft = [e \in Engines |-> NewFileTransfer]
    /\ chan = [e \in Engines |-> <<>>]
    /\ \E cs \in 1..MaxXferChunk, mps \in 1..MaxXferCap :
          opts = [chunkSize |-> cs, maxPartitionSize |-> mps]
    /\ plan = [left |-> MaxFiles, sizes |-> 0..MaxXferFileSize, ends |-> {"A"},
               opened |-> FALSE]

\* dc.onopen: the channel becomes open, once.
ChannelOpens ==
    /\ ~plan.opened
    /\ peer' = [peer EXCEPT !.dcOpen = TRUE]
    /\ plan' = [plan EXCEPT !.opened = TRUE]
    /\ UNCHANGED <<sig, ft, chan, opts, codecVars, registryVars>>

\* dc.onclose: the remote end or the transport closed the channel.
ChannelCloses ==
    /\ peer.dcOpen
    /\ peer' = [peer EXCEPT !.dcOpen = FALSE]
    /\ UNCHANGED <<sig, xferVars, codecVars, registryVars>>

\* The user calls Peer.sendFiles(files).
ChannelSendFiles ==
    /\ \E n \in 1..Min(2, plan.left) :
       \E files \in [1..n -> plan.sizes] :
          /\ Deliver("A", sendFilesOn(peer, ft["A"], files), <<>>)
          /\ plan' = [plan EXCEPT !.left = @ - n]
    /\ UNCHANGED <<sig, opts, codecVars, peer, registryVars>>

ChannelChunkRead ==
    /\ Reading(ft["A"])
    /\ Deliver("A", chunkReadOn(peer, ft["A"]), <<>>)
    /\ UNCHANGED <<sig, opts, plan, codecVars, peer, registryVars>>

NextChannel == ChannelOpens \/ ChannelCloses \/ ChannelSendFiles \/ ChannelChunkRead

SpecChannel == InitChannel /\ [][NextChannel]_vars

\* C36: a sendFiles() call made while the data channel is open leaves a file
\* in transfer (a header has gone out that no transfer-complete has answered),
\* whatever failed on the channel before it was open.
C36_RetryAfterOpenStartsSending ==
    [][(plan'.left < plan.left /\ peer.dcOpen) =>
          Len(ft'["A"].sentSizes) > ft'["A"].tcSeen]_vars

\* C36 witness: sendFiles() failed at the header before the channel opened; a
\* second sendFiles() on the open channel queued its file and returned, busy
\* still set and nothing sent.
C36_Witness ==
    /\ peer.dcOpen
    /\ plan.left = 0
    /\ ft["A"].busy
    /\ Len(ft["A"].filesQueue) = 1
    /\ ft["A"].sentSizes = <<>>
    /\ chan["B"] = <<>>

\* ------------------------------------- SpecDelivery: every file is delivered
\*
\* The two engines of Spec on an open data channel, engine A sending. The
\* channel is reliable and ordered and file reads settle: while a frame is in
\* flight or a read is pending, one of them is handled in the end.

InitDelivery ==
    /\ IdleSignaling
    /\ IdleCodec
    /\ IdlePeer
    /\ IdleRegistry
    /\ ft = [e \in Engines |-> NewFileTransfer]
    /\ chan = [e \in Engines |-> <<>>]
    /\ \E cs \in 1..MaxXferChunk, mps \in 1..MaxXferCap :
          opts = [chunkSize |-> cs, maxPartitionSize |-> mps]
    /\ plan = [left |-> MaxFiles, sizes |-> 0..MaxXferFileSize, ends |-> {"A"}]

EngineStep == \E e \in Engines : XferReceive(e) \/ XferChunkRead(e)

SpecDelivery == InitDelivery /\ [][Next]_vars /\ WF_vars(EngineStep)

\* The sizes of the files passed to sendFiles() of engine e so far, in order.
Passed(e) == ft[e].sentSizes \o ft[e].filesQueue

\* Every file passed to engine A has been handed, whole, to the file-received
\* callback of engine B, once and in order, and engine A is idle.
AllDelivered ==
    /\ ft["B"].received =
          [i \in 1..Len(Passed("A")) |-> [size |-> Passed("A")[i], bytes |-> Passed("A")[i]]]
    /\ ~ft["A"].busy
    /\ ft["A"].filesQueue = <<>>
    /\ ft["A"].chunker = Null

\* C37: at every moment the files delivered to the remote file-received
\* callback are the first of the files passed to sendFiles, each once, whole and
\* in the order passed; and whatever has been passed, a moment comes at which
\* all of it has been delivered and the sender is idle with an empty queue.
C37_EveryFileDelivered ==
    /\ [](/\ Len(ft["B"].received) <= Len(Passed("A"))
          /\ \A i \in 1..Len(ft["B"].received) :
                ft["B"].received[i] = [size |-> Passed("A")[i], bytes |-> Passed("A")[i]])
    /\ []<>AllDelivered

\* C37 witness: a zero-byte file and a file of exactly one partition, queued
\* together, have both been delivered.
C37_Witness ==
    /\ AllDelivered
    /\ Passed("A") = <<0, 2>>
    /\ opts = [chunkSize |-> 1, maxPartitionSize |-> 2]
    /\ ft["A"].tcSeen = 2

\* --------------------------- SpecRegistry: the controller through close and destroy
\*
\* A WebRTCController that handles relay messages while its socket is open, a
\* HELLO after each (re)connection, the close of the socket, connect requests
\* and destroy() of its owner, and the events of its sessions' transports: a
\* change of the connection state, and a file header on the data channel of a
\* connected session.

MaxRegistryEvents == 4

Handled(c, what) ==
    /\ ctl.msgs < MaxRegistryEvents
    /\ ctl' = [c EXCEPT !.msgs = @ + 1, !.last = what]
    /\ UNCHANGED <<sig, codecVars, xferVars, peer, mgr, pair>>

SocketOpen == ctl.connectionStatus = "connected" /\ ~ctl.destroyed

RegHello ==
    /\ ctl.connectionStatus # "connected" /\ ~ctl.destroyed
    /\ \E peers \in SUBSET Remotes : Handled(handleHello(ctl, MyId, peers), <<"HELLO">>)

RegJoin == SocketOpen /\ \E r \in Remotes : Handled(handleJoin(ctl, r), <<"JOIN", r>>)

RegLeft == SocketOpen /\ \E r \in Remotes : Handled(handleLeft(ctl, r), <<"LEFT", r>>)

RegOffer ==
    /\ SocketOpen
    /\ \E r \in Remotes, sid \in 1..MaxRemoteSessions :
          Handled(handleIncomingOffer(ctl, r, sid), <<"OFFER", r, sid>>)

\* The user asks for a connection to a peer.
RegConnect == \E r \in Remotes : Handled(connectToPeer(ctl, r), <<"connect", r>>)

\* The socket closes: _handleClose() of the SignalingConnection calls onClose.
RegClose == SocketOpen /\ Handled(onClose(ctl), <<"close">>)

RegDestroy == ~ctl.destroyed /\ Handled(controllerDestroy(ctl), <<"destroy">>)

\* The transport of a session, destroyed or not, changes its connection state.
RegConnectionState ==
    \E i \in 1..Len(ctl.sessions), state \in {"connected", "disconnected"} :
        /\ ctl.sessions[i].p.pcOpen
        /\ Handled(connectionStateEvent(ctl, i, state), <<"connectionstate", i, state>>)

\* dc.onmessage of a connected session delivers the header of a file.
RegHeader ==
    \E i \in 1..Len(ctl.sessions) :
        /\ ctl.sessions[i].p.pcOpen
        /\ ctl.sessions[i].p.lastConnectionState = "connected"
        /\ Handled([ctl EXCEPT !.sessions[i].p.fileTransfer =
                       handleIncomingMessage(@, Msg("header", 1, 0)).ft],
                   <<"header", i>>)

NextRegistry ==
    \/ RegHello \/ RegJoin \/ RegLeft \/ RegOffer \/ RegConnect
    \/ RegClose \/ RegDestroy \/ RegConnectionState \/ RegHeader

SpecRegistry == InitController /\ [][NextRegistry]_vars

\* C38: the remote ids with a recorded session id are the remote ids with a
\* registered session, and the recorded id is the sessionId of that session,
\* which has not been destroyed and belongs to that remote id.
C38_SessionMapsAgree ==
    \A r \in Remotes :
        /\ (ctl.peerSessionById[r] # 0) <=> (ctl.peerConnections[r] # 0)
        /\ ctl.peerConnections[r] # 0 =>
              LET x == ctl.sessions[ctl.peerConnections[r]]
              IN  /\ x.peerId = r
                  /\ x.sessionId = ctl.peerSessionById[r]
                  /\ ~x.destroyed

\* C38 witness: the socket closed with a caller session for one remote id and
\* a callee session for the other on file; both maps are empty.
C38_Witness ==
    /\ ctl.last = <<"close">>
    /\ Len(ctl.sessions) = 2
    /\ ctl.sessions[1].peerId # ctl.sessions[2].peerId
    /\ ctl.sessions[1].p.isCaller /\ ~ctl.sessions[2].p.isCaller
    /\ \A r \in Remotes : ctl.peerSessionById[r] = 0 /\ ctl.peerConnections[r] = 0

\* A FileTransfer as destroy() leaves it, every digester it had rejected or
\* resolved.
TransferCleared(f) ==
    /\ f.filesQueue = <<>> /\ ~f.busy /\ f.chunker = Null /\ f.digester = Null
    /\ \A k \in 1..Len(f.replaced) : f.replaced[k].digester.settled

\* C40: the step that handles the close of the socket leaves every session
\* destroyed, its transport closed and its transfer cleared, and the peer list,
\* the connection-state map, the session map and the map of sessions empty; and
\* at no time does the connection-state map or the session map hold an entry
\* for a remote id without a registered session.
C40_CloseClearsEverything ==
    /\ [](\A r \in Remotes :
             ctl.peerConnections[r] = 0 =>
                ctl.peerConnectionState[r] = "absent" /\ ctl.peerSessionById[r] = 0)
    /\ [][(ctl'.msgs = ctl.msgs + 1 /\ ctl'.last = <<"close">>) =>
             /\ \A i \in 1..Len(ctl'.sessions) :
                   /\ ctl'.sessions[i].destroyed
                   /\ ~ctl'.sessions[i].p.pcOpen
                   /\ TransferCleared(ctl'.sessions[i].p.fileTransfer)
             /\ ctl'.peers = {}
             /\ \A r \in Remotes :
                   /\ ctl'.peerConnections[r] = 0
                   /\ ctl'.peerConnectionState[r] = "absent"
                   /\ ctl'.peerSessionById[r] = 0]_vars

\* C40 witness: the socket closed while a session was connected peer-to-peer
\* and receiving a file; the session is destroyed and its digester rejected.
C40_Witness ==
    /\ ctl.last = <<"close">>
    /\ Len(ctl.sessions) = 1
    /\ ctl.sessions[1].destroyed
    /\ ctl.sessions[1].p.fileTransfer.replaced # <<>>
    /\ ctl.sessions[1].p.fileTransfer.replaced[1].pending
    /\ ctl.sessions[1].p.fileTransfer.replaced[1].digester.rejects = 1
    /\ ctl.peerConnectionState = [r \in Remotes |-> "absent"]

\* ----------------------------------- SpecMesh: two controllers on one relay
\*
\* Two WebRTCControllers, sides A and B, with distinct relay-assigned ids. The
\* relay answers the connection of a side with a HELLO naming the sides already
\* connected and tells those of it with a JOIN; it forwards OFFER, ANSWER and
\* CANDIDATE to their target, each side's messages in order. pair holds the
\* relay: ids, the sides connected, the messages on their way to each side and
\* the local candidates each side has signalled. The transports are healthy: a
\* promise is rejected only when the signaling state forbids its operation.

MaxMeshCandidates == 1

RelayMsg(type, from, sid, peers) == [type |-> type, from |-> from, sid |-> sid, peers |-> peers]

InitMesh ==
    /\ IdleSignaling
    /\ IdleCodec
    /\ IdleXfer
    /\ IdlePeer
    /\ mgr = NewManager
    /\ ctl = [s \in Engines |-> NewController]
    /\ \E a \in Remotes : \E b \in Remotes \ {a} :
          pair = [id |-> [s \in Engines |-> IF s = "A" THEN a ELSE b],
                  joined |-> {},
                  inbox |-> [s \in Engines |-> <<>>],
                  cands |-> [s \in Engines |-> 0]]

\* The socket of side s opens and the relay registers it.
MeshConnect(s) ==
    /\ s \notin pair.joined
    /\ pair' = [pair EXCEPT
          !.joined = @ \cup {s},
          !.inbox = [t \in Engines |->
             IF t = s
             THEN Append(@[t], RelayMsg("HELLO", pair.id[s], 0,
                                        {pair.id[x] : x \in pair.joined}))
             ELSE IF t \in pair.joined
             THEN Append(@[t], RelayMsg("JOIN", pair.id[s], 0, {}))
             ELSE @[t]]]
    /\ UNCHANGED <<sig, codecVars, xferVars, peer, ctl, mgr>>

\* handleSignalingMessage(msg) of a controller.
handleSignalingMessage(c, myId, m) ==
    CASE m.type = "HELLO" -> handleHello(c, myId, m.peers)
      [] m.type = "JOIN" -> handleJoin(c, m.from)
      [] m.type = "OFFER" -> handleIncomingOffer(c, m.from, m.sid)
      [] m.type = "ANSWER" -> handleIncomingAnswer(c, m.from, m.sid)
      [] m.type = "CANDIDATE" -> handleIncomingCandidate(c, m.from, m.sid, "cand")
      [] OTHER -> c

\* The socket of side s delivers the oldest message on its way.
MeshDeliver(s) ==
    /\ pair.inbox[s] # <<>>
    /\ ctl' = [ctl EXCEPT ![s] = handleSignalingMessage(@, pair.id[s], Head(pair.inbox[s]))]
    /\ pair' = [pair EXCEPT !.inbox[s] = Tail(@)]
    /\ UNCHANGED <<sig, codecVars, xferVars, peer, mgr>>

\* The transport of a session of side s settles its oldest pending promise; an
\* OFFER or ANSWER the session then hands to signaling.send goes to the relay.
MeshSettle(s) ==
    \E i \in 1..Len(ctl[s].sessions) :
        LET x == ctl[s].sessions[i]
        IN  /\ x.p.ops # <<>>
            /\ LET p2 == settle(x.p, MayResolve(x.p, Head(x.p.ops)))
                   out == [k \in 1..(Len(p2.sent) - Len(x.p.sent)) |->
                              RelayMsg(p2.sent[Len(x.p.sent) + k], pair.id[s],
                                       x.sessionId, {})]
               IN  /\ ctl' = [ctl EXCEPT ![s].sessions[i].p = p2]
                   /\ pair' = [pair EXCEPT !.inbox[Other(s)] = @ \o out]
            /\ UNCHANGED <<sig, codecVars, xferVars, peer, mgr>>

\* pc.onicecandidate of a session of side s that has a local description.
MeshLocalCandidate(s) ==
    /\ pair.cands[s] < MaxMeshCandidates
    /\ \E i \in 1..Len(ctl[s].sessions) :
          /\ ctl[s].sessions[i].p.pcOpen
          /\ ctl[s].sessions[i].p.localDescription
          /\ pair' = [pair EXCEPT
                !.cands[s] = @ + 1,
                !.inbox[Other(s)] =
                   Append(@, RelayMsg("CANDIDATE", pair.id[s],
                                      ctl[s].sessions[i].sessionId, {}))]
    /\ UNCHANGED <<sig, codecVars, xferVars, peer, ctl, mgr>>

MeshStep == \E s \in Engines : MeshDeliver(s) \/ MeshSettle(s)

NextMesh == \E s \in Engines : MeshConnect(s) \/ MeshLocalCandidate(s) \/ MeshStep

SpecMesh == InitMesh /\ [][NextMesh]_vars /\ WF_vars(MeshStep)

\* Both sides have learned of each other from a HELLO or a JOIN.
MeshKnown == \A s \in Engines : pair.id[Other(s)] \in ctl[s].peers

\* The sessions of side s for the other side that were not destroyed.
MeshLive(s) == Live(ctl[s], pair.id[Other(s)])

\* Each side holds one session for the other, the two with one session id and
\* opposite roles, and the callee has handed its ANSWER to signaling.send.
MeshPaired ==
    /\ \A s \in Engines : Cardinality(MeshLive(s)) = 1
    /\ \E i \in MeshLive("A"), j \in MeshLive("B") :
          LET a == ctl["A"].sessions[i]
              b == ctl["B"].sessions[j]
          IN  /\ ctl["A"].peerConnections[pair.id["B"]] = i
              /\ ctl["B"].peerConnections[pair.id["A"]] = j
              /\ a.sessionId = b.sessionId
              /\ a.p.isCaller # b.p.isCaller
              /\ \E k \in 1..(IF a.p.isCaller THEN Len(b.p.sent) ELSE Len(a.p.sent)) :
                    (IF a.p.isCaller THEN b.p.sent[k] ELSE a.p.sent[k]) = "ANSWER"

\* C39: once both sides have learned of each other, a moment comes at which
\* each holds exactly one session for the other, with one session id and
\* opposite roles, and the callee has sent its ANSWER; and no side ever holds
\* more than one session for the other.
C39_PairConverges ==
    /\ [](\A s \in Engines : Cardinality(MeshLive(s)) <= 1)
    /\ MeshKnown ~> MeshPaired

\* C39 witness: side B, with the smaller id, called; side A answered, and the
\* caller has applied the answer.
C39_Witness ==
    /\ MeshPaired
    /\ ctl["B"].sessions[1].p.isCaller
    /\ ctl["B"].sessions[1].p.signalingState = "stable"
    /\ ctl["A"].sessions[1].p.sent = <<"ANSWER">>
    /\ \A s \in Engines : pair.inbox[s] = <<>>

====
